---- MODULE Spec2Model ----
(***************************************************************************)
(* Osiris shell: the command safety-and-execution pipeline.                *)
(*   CommandExecutor  (shiv_command_execution/command_executor.py)         *)
(*   SafetyGate       (kshitij_safety_gate/safety_gate.py)                 *)
(*   OsirisTeamShell  (osiris_team.py), CLIFramework, CommandRModel        *)
(* Python strings are modelled as sequences of one-character strings, so   *)
(* that splitting, lower-casing and substring tests are computed.          *)
(***************************************************************************)
EXTENDS Integers, Sequences, FiniteSets, TLC

(***************************************************************************)
(* Python str operations                                                   *)
(***************************************************************************)

\* an optional value: None is the empty tuple, a present value x is <<x>>
None == <<>>

Some(x) == <<x>>

\* characters str.split() and str.strip() treat as whitespace
Whitespace == {" ", "\t", "\n"}

UpperCase == <<"A","B","C","D","E","F","G","H","I","J","K","L","M","N","O","P","Q","R","S","T","U","V","W","X","Y","Z">>
LowerCase == <<"a","b","c","d","e","f","g","h","i","j","k","l","m","n","o","p","q","r","s","t","u","v","w","x","y","z">>

\* str.lower() on one character
LowerChar(c) ==
  IF \E i \in 1..26 : UpperCase[i] = c
  THEN LowerCase[CHOOSE i \in 1..26 : UpperCase[i] = c]
  ELSE c

\* str.lower()
Lower(s) == [i \in 1..Len(s) |-> LowerChar(s[i])]

\* t in s  (substring test)
Contains(s, t) ==
  \E i \in 0..(Len(s) - Len(t)) : \A j \in 1..Len(t) : s[i + j] = t[j]

\* s.startswith(t)
StartsWith(s, t) ==
  /\ Len(t) <= Len(s)
  /\ \A j \in 1..Len(t) : s[j] = t[j]

RECURSIVE LStrip(_)
LStrip(s) == IF s # <<>> /\ Head(s) \in Whitespace THEN LStrip(Tail(s)) ELSE s

RECURSIVE RStrip(_)
RStrip(s) ==
  IF s # <<>> /\ s[Len(s)] \in Whitespace THEN RStrip(SubSeq(s, 1, Len(s) - 1)) ELSE s

\* str.strip()
Strip(s) == RStrip(LStrip(s))

\* str.split(): the words of s, split on runs of whitespace
RECURSIVE SplitFrom(_, _, _)
SplitFrom(s, word, words) ==
  IF s = <<>>
  THEN IF word = <<>> THEN words ELSE Append(words, word)
  ELSE IF Head(s) \in Whitespace
       THEN SplitFrom(Tail(s), <<>>, IF word = <<>> THEN words ELSE Append(words, word))
       ELSE SplitFrom(Tail(s), Append(word, Head(s)), words)

Split(s) == SplitFrom(s, <<>>, <<>>)

\* " ".join(words)
RECURSIVE Join(_)
Join(words) ==
  IF words = <<>> THEN <<>>
  ELSE IF Len(words) = 1 THEN words[1]
  ELSE words[1] \o <<" ">> \o Join(Tail(words))

Digits == <<"0","1","2","3","4","5","6","7","8","9">>

\* str(n) for an integer n
RECURSIVE NatToStr(_)
NatToStr(n) == IF n < 10 THEN <<Digits[n + 1]>> ELSE NatToStr(n \div 10) \o <<Digits[(n % 10) + 1]>>

IntToStr(n) == IF n < 0 THEN <<"-">> \o NatToStr(-n) ELSE NatToStr(n)

\* "x" -> "\"x\""
Quoted(s) == <<"\"">> \o s \o <<"\"">>

(***************************************************************************)
(* CommandExecutor: translation of Linux commands to PowerShell            *)
(***************************************************************************)

\* linux_commands
linux_commands ==
  { <<"l","s">>, <<"c","a","t">>, <<"p","w","d">>, <<"t","o","u","c","h">>, <<"m","k","d","i","r">>, <<"r","m">>, <<"c","p">>, <<"m","v">>,
    <<"e","c","h","o">>, <<"c","l","e","a","r">>, <<"p","s">>, <<"k","i","l","l">>, <<"g","r","e","p">>, <<"f","i","n","d">>, <<"d","f">>,
    <<"w","h","o","a","m","i">>, <<"h","o","s","t","n","a","m","e">>, <<"d","a","t","e">>, <<"h","e","a","d">>, <<"t","a","i","l">>, <<"w","c">> }

\* first_word = command.strip().split()[0] if command.strip() else ''
first_word(command) ==
  IF Strip(command) # <<>> THEN Split(Strip(command))[1] ELSE <<>>

\* _is_linux_command(command)
is_linux_command(command) == first_word(command) \in linux_commands

\* the commands _translate_to_windows has a rule for
translated_commands ==
  { <<"l","s">>, <<"p","w","d">>, <<"c","a","t">>, <<"h","e","a","d">>, <<"t","a","i","l">>, <<"t","o","u","c","h">>, <<"m","k","d","i","r">>, <<"r","m">>, <<"c","p">>,
    <<"m","v">>, <<"e","c","h","o">>, <<"c","l","e","a","r">>, <<"p","s">>, <<"k","i","l","l">>, <<"g","r","e","p">>, <<"f","i","n","d">>, <<"d","f">>,
    <<"w","h","o","a","m","i">>, <<"h","o","s","t","n","a","m","e">>, <<"d","a","t","e">>, <<"w","c">> }

\* the rules that answer with a usage message when no argument is given
one_argument_commands ==
  { <<"c","a","t">>, <<"h","e","a","d">>, <<"t","a","i","l">>, <<"t","o","u","c","h">>, <<"m","k","d","i","r">>, <<"r","m">>, <<"k","i","l","l">>, <<"g","r","e","p">>, <<"w","c">> }

\* the rules that answer with a usage message when fewer than two arguments are given
two_argument_commands == { <<"c","p">>, <<"m","v">> }

\* a translator that normalises the white space of what it does not translate
translate_to_windows_normalised(command) ==
  LET parts == Split(Strip(command)) IN
  IF parts = <<>> THEN <<>>
  ELSE
  LET cmd  == parts[1]
      args == IF Len(parts) > 1 THEN Tail(parts) ELSE <<>>
      last == args[Len(args)]
  IN
  CASE cmd = <<"l","s">> -> <<"G","e","t","-","C","h","i","l","d","I","t","e","m">>
    [] cmd = <<"p","w","d">> -> <<"G","e","t","-","L","o","c","a","t","i","o","n">>
    [] cmd = <<"c","a","t">> ->
         IF args # <<>> THEN <<"G","e","t","-","C","o","n","t","e","n","t"," ">> \o Quoted(args[1])
         ELSE <<"W","r","i","t","e","-","H","o","s","t"," ","\"","c","a","t",":"," ","m","i","s","s","i","n","g"," ","f","i","l","e"," ","n","a","m","e","\"">>
    [] cmd = <<"h","e","a","d">> ->
         IF args # <<>> THEN <<"G","e","t","-","C","o","n","t","e","n","t"," ">> \o Quoted(last) \o <<" ","|"," ","S","e","l","e","c","t","-","O","b","j","e","c","t"," ","-","F","i","r","s","t"," ","1","0">>
         ELSE <<"W","r","i","t","e","-","H","o","s","t"," ","\"","h","e","a","d",":"," ","m","i","s","s","i","n","g"," ","f","i","l","e"," ","n","a","m","e","\"">>
    [] cmd = <<"t","a","i","l">> ->
         IF args # <<>> THEN <<"G","e","t","-","C","o","n","t","e","n","t"," ">> \o Quoted(last) \o <<" ","|"," ","S","e","l","e","c","t","-","O","b","j","e","c","t"," ","-","L","a","s","t"," ","1","0">>
         ELSE <<"W","r","i","t","e","-","H","o","s","t"," ","\"","t","a","i","l",":"," ","m","i","s","s","i","n","g"," ","f","i","l","e"," ","n","a","m","e","\"">>
    [] cmd = <<"t","o","u","c","h">> ->
         IF args # <<>>
         THEN <<"i","f"," ","(","T","e","s","t","-","P","a","t","h"," ">> \o Quoted(args[1]) \o <<")"," ","{"," ","(","G","e","t","-","I","t","e","m"," ">> \o Quoted(args[1])
              \o <<")",".","L","a","s","t","W","r","i","t","e","T","i","m","e"," ","="," ","G","e","t","-","D","a","t","e"," ","}"," ","e","l","s","e"," ","{"," ","N","e","w","-","I","t","e","m"," ","-","I","t","e","m","T","y","p","e"," ","F","i","l","e"," ">>
              \o Quoted(args[1]) \o <<" ","|"," ","O","u","t","-","N","u","l","l"," ","}">>
         ELSE <<"W","r","i","t","e","-","H","o","s","t"," ","\"","t","o","u","c","h",":"," ","m","i","s","s","i","n","g"," ","f","i","l","e"," ","n","a","m","e","\"">>
    [] cmd = <<"m","k","d","i","r">> ->
         IF args # <<>> THEN <<"N","e","w","-","I","t","e","m"," ","-","I","t","e","m","T","y","p","e"," ","D","i","r","e","c","t","o","r","y"," ">> \o Quoted(args[1]) \o <<" ","-","F","o","r","c","e">>
         ELSE <<"W","r","i","t","e","-","H","o","s","t"," ","\"","m","k","d","i","r",":"," ","m","i","s","s","i","n","g"," ","d","i","r","e","c","t","o","r","y"," ","n","a","m","e","\"">>
    [] cmd = <<"r","m">> ->
         IF args # <<>> THEN <<"R","e","m","o","v","e","-","I","t","e","m"," ">> \o Quoted(args[1]) \o <<" ","-","F","o","r","c","e">>
         ELSE <<"W","r","i","t","e","-","H","o","s","t"," ","\"","r","m",":"," ","m","i","s","s","i","n","g"," ","f","i","l","e"," ","n","a","m","e","\"">>
    [] cmd = <<"c","p">> ->
         IF Len(args) >= 2 THEN <<"C","o","p","y","-","I","t","e","m"," ">> \o Quoted(args[1]) \o <<" ">> \o Quoted(args[2])
         ELSE <<"W","r","i","t","e","-","H","o","s","t"," ","\"","c","p",":"," ","n","e","e","d"," ","s","o","u","r","c","e"," ","a","n","d"," ","d","e","s","t","i","n","a","t","i","o","n","\"">>
    [] cmd = <<"m","v">> ->
         IF Len(args) >= 2 THEN <<"M","o","v","e","-","I","t","e","m"," ">> \o Quoted(args[1]) \o <<" ">> \o Quoted(args[2])
         ELSE <<"W","r","i","t","e","-","H","o","s","t"," ","\"","m","v",":"," ","n","e","e","d"," ","s","o","u","r","c","e"," ","a","n","d"," ","d","e","s","t","i","n","a","t","i","o","n","\"">>
    [] cmd = <<"e","c","h","o">> ->
         IF args # <<>> THEN <<"W","r","i","t","e","-","O","u","t","p","u","t"," ">> \o Join(args)
         ELSE <<"W","r","i","t","e","-","O","u","t","p","u","t"," ","\"","\"">>
    [] cmd = <<"c","l","e","a","r">> -> <<"C","l","e","a","r","-","H","o","s","t">>
    [] cmd = <<"p","s">> -> <<"G","e","t","-","P","r","o","c","e","s","s"," ","|"," ","S","e","l","e","c","t","-","O","b","j","e","c","t"," ","P","r","o","c","e","s","s","N","a","m","e",",","I","d",",","C","P","U">>
    [] cmd = <<"k","i","l","l">> ->
         IF args # <<>> THEN <<"S","t","o","p","-","P","r","o","c","e","s","s"," ","-","I","d"," ">> \o args[1] \o <<" ","-","F","o","r","c","e">>
         ELSE <<"W","r","i","t","e","-","H","o","s","t"," ","\"","k","i","l","l",":"," ","m","i","s","s","i","n","g"," ","p","r","o","c","e","s","s"," ","I","D","\"">>
    [] cmd = <<"g","r","e","p">> ->
         IF args # <<>> THEN <<"S","e","l","e","c","t","-","S","t","r","i","n","g"," ">> \o Join(args)
         ELSE <<"W","r","i","t","e","-","H","o","s","t"," ","\"","g","r","e","p",":"," ","m","i","s","s","i","n","g"," ","s","e","a","r","c","h"," ","p","a","t","t","e","r","n","\"">>
    [] cmd = <<"f","i","n","d">> ->
         <<"G","e","t","-","C","h","i","l","d","I","t","e","m"," ","-","P","a","t","h"," ">> \o Quoted(IF args # <<>> THEN args[1] ELSE <<".">>) \o <<" ","-","R","e","c","u","r","s","e">>
    [] cmd = <<"d","f">> -> <<"G","e","t","-","P","S","D","r","i","v","e"," ","-","P","S","P","r","o","v","i","d","e","r"," ","F","i","l","e","S","y","s","t","e","m">>
    [] cmd = <<"w","h","o","a","m","i">> -> <<"$","e","n","v",":","U","S","E","R","N","A","M","E">>
    [] cmd = <<"h","o","s","t","n","a","m","e">> -> <<"$","e","n","v",":","C","O","M","P","U","T","E","R","N","A","M","E">>
    [] cmd = <<"d","a","t","e">> -> <<"G","e","t","-","D","a","t","e">>
    [] cmd = <<"w","c">> ->
         IF args # <<>>
         THEN <<"G","e","t","-","C","o","n","t","e","n","t"," ">> \o Quoted(args[1]) \o <<" ","|"," ","M","e","a","s","u","r","e","-","O","b","j","e","c","t"," ","-","L","i","n","e"," ","-","W","o","r","d"," ","-","C","h","a","r","a","c","t","e","r">>
         ELSE <<"W","r","i","t","e","-","H","o","s","t"," ","\"","w","c",":"," ","m","i","s","s","i","n","g"," ","f","i","l","e"," ","n","a","m","e","\"">>
    [] OTHER -> Join(parts)

\* a translator whose cp and mv pass every argument on, unquoted
translate_to_windows_unquoted(command) ==
  LET parts == Split(Strip(command)) IN
  IF parts = <<>> THEN command
  ELSE
  LET cmd  == parts[1]
      args == IF Len(parts) > 1 THEN Tail(parts) ELSE <<>>
      last == args[Len(args)]
  IN
  CASE cmd = <<"l","s">> -> <<"G","e","t","-","C","h","i","l","d","I","t","e","m">>
    [] cmd = <<"p","w","d">> -> <<"G","e","t","-","L","o","c","a","t","i","o","n">>
    [] cmd = <<"c","a","t">> ->
         IF args # <<>> THEN <<"G","e","t","-","C","o","n","t","e","n","t"," ">> \o Quoted(args[1])
         ELSE <<"W","r","i","t","e","-","H","o","s","t"," ","\"","c","a","t",":"," ","m","i","s","s","i","n","g"," ","f","i","l","e"," ","n","a","m","e","\"">>
    [] cmd = <<"h","e","a","d">> ->
         IF args # <<>> THEN <<"G","e","t","-","C","o","n","t","e","n","t"," ">> \o Quoted(last) \o <<" ","|"," ","S","e","l","e","c","t","-","O","b","j","e","c","t"," ","-","F","i","r","s","t"," ","1","0">>
         ELSE <<"W","r","i","t","e","-","H","o","s","t"," ","\"","h","e","a","d",":"," ","m","i","s","s","i","n","g"," ","f","i","l","e"," ","n","a","m","e","\"">>
    [] cmd = <<"t","a","i","l">> ->
         IF args # <<>> THEN <<"G","e","t","-","C","o","n","t","e","n","t"," ">> \o Quoted(last) \o <<" ","|"," ","S","e","l","e","c","t","-","O","b","j","e","c","t"," ","-","L","a","s","t"," ","1","0">>
         ELSE <<"W","r","i","t","e","-","H","o","s","t"," ","\"","t","a","i","l",":"," ","m","i","s","s","i","n","g"," ","f","i","l","e"," ","n","a","m","e","\"">>
    [] cmd = <<"t","o","u","c","h">> ->
         IF args # <<>>
         THEN <<"i","f"," ","(","T","e","s","t","-","P","a","t","h"," ">> \o Quoted(args[1]) \o <<")"," ","{"," ","(","G","e","t","-","I","t","e","m"," ">> \o Quoted(args[1])
              \o <<")",".","L","a","s","t","W","r","i","t","e","T","i","m","e"," ","="," ","G","e","t","-","D","a","t","e"," ","}"," ","e","l","s","e"," ","{"," ","N","e","w","-","I","t","e","m"," ","-","I","t","e","m","T","y","p","e"," ","F","i","l","e"," ">>
              \o Quoted(args[1]) \o <<" ","|"," ","O","u","t","-","N","u","l","l"," ","}">>
         ELSE <<"W","r","i","t","e","-","H","o","s","t"," ","\"","t","o","u","c","h",":"," ","m","i","s","s","i","n","g"," ","f","i","l","e"," ","n","a","m","e","\"">>
    [] cmd = <<"m","k","d","i","r">> ->
         IF args # <<>> THEN <<"N","e","w","-","I","t","e","m"," ","-","I","t","e","m","T","y","p","e"," ","D","i","r","e","c","t","o","r","y"," ">> \o Quoted(args[1]) \o <<" ","-","F","o","r","c","e">>
         ELSE <<"W","r","i","t","e","-","H","o","s","t"," ","\"","m","k","d","i","r",":"," ","m","i","s","s","i","n","g"," ","d","i","r","e","c","t","o","r","y"," ","n","a","m","e","\"">>
    [] cmd = <<"r","m">> ->
         IF args # <<>> THEN <<"R","e","m","o","v","e","-","I","t","e","m"," ">> \o Quoted(args[1]) \o <<" ","-","F","o","r","c","e">>
         ELSE <<"W","r","i","t","e","-","H","o","s","t"," ","\"","r","m",":"," ","m","i","s","s","i","n","g"," ","f","i","l","e"," ","n","a","m","e","\"">>
    [] cmd = <<"c","p">> ->
         IF Len(args) >= 2 THEN <<"C","o","p","y","-","I","t","e","m"," ">> \o Join(args)
         ELSE <<"W","r","i","t","e","-","H","o","s","t"," ","\"","c","p",":"," ","n","e","e","d"," ","s","o","u","r","c","e"," ","a","n","d"," ","d","e","s","t","i","n","a","t","i","o","n","\"">>
    [] cmd = <<"m","v">> ->
         IF Len(args) >= 2 THEN <<"M","o","v","e","-","I","t","e","m"," ">> \o Join(args)
         ELSE <<"W","r","i","t","e","-","H","o","s","t"," ","\"","m","v",":"," ","n","e","e","d"," ","s","o","u","r","c","e"," ","a","n","d"," ","d","e","s","t","i","n","a","t","i","o","n","\"">>
    [] cmd = <<"e","c","h","o">> ->
         IF args # <<>> THEN <<"W","r","i","t","e","-","O","u","t","p","u","t"," ">> \o Join(args)
         ELSE <<"W","r","i","t","e","-","O","u","t","p","u","t"," ","\"","\"">>
    [] cmd = <<"c","l","e","a","r">> -> <<"C","l","e","a","r","-","H","o","s","t">>
    [] cmd = <<"p","s">> -> <<"G","e","t","-","P","r","o","c","e","s","s"," ","|"," ","S","e","l","e","c","t","-","O","b","j","e","c","t"," ","P","r","o","c","e","s","s","N","a","m","e",",","I","d",",","C","P","U">>
    [] cmd = <<"k","i","l","l">> ->
         IF args # <<>> THEN <<"S","t","o","p","-","P","r","o","c","e","s","s"," ","-","I","d"," ">> \o args[1] \o <<" ","-","F","o","r","c","e">>
         ELSE <<"W","r","i","t","e","-","H","o","s","t"," ","\"","k","i","l","l",":"," ","m","i","s","s","i","n","g"," ","p","r","o","c","e","s","s"," ","I","D","\"">>
    [] cmd = <<"g","r","e","p">> ->
         IF args # <<>> THEN <<"S","e","l","e","c","t","-","S","t","r","i","n","g"," ">> \o Join(args)
         ELSE <<"W","r","i","t","e","-","H","o","s","t"," ","\"","g","r","e","p",":"," ","m","i","s","s","i","n","g"," ","s","e","a","r","c","h"," ","p","a","t","t","e","r","n","\"">>
    [] cmd = <<"f","i","n","d">> ->
         <<"G","e","t","-","C","h","i","l","d","I","t","e","m"," ","-","P","a","t","h"," ">> \o Quoted(IF args # <<>> THEN args[1] ELSE <<".">>) \o <<" ","-","R","e","c","u","r","s","e">>
    [] cmd = <<"d","f">> -> <<"G","e","t","-","P","S","D","r","i","v","e"," ","-","P","S","P","r","o","v","i","d","e","r"," ","F","i","l","e","S","y","s","t","e","m">>
    [] cmd = <<"w","h","o","a","m","i">> -> <<"$","e","n","v",":","U","S","E","R","N","A","M","E">>
    [] cmd = <<"h","o","s","t","n","a","m","e">> -> <<"$","e","n","v",":","C","O","M","P","U","T","E","R","N","A","M","E">>
    [] cmd = <<"d","a","t","e">> -> <<"G","e","t","-","D","a","t","e">>
    [] cmd = <<"w","c">> ->
         IF args # <<>>
         THEN <<"G","e","t","-","C","o","n","t","e","n","t"," ">> \o Quoted(args[1]) \o <<" ","|"," ","M","e","a","s","u","r","e","-","O","b","j","e","c","t"," ","-","L","i","n","e"," ","-","W","o","r","d"," ","-","C","h","a","r","a","c","t","e","r">>
         ELSE <<"W","r","i","t","e","-","H","o","s","t"," ","\"","w","c",":"," ","m","i","s","s","i","n","g"," ","f","i","l","e"," ","n","a","m","e","\"">>
    [] OTHER -> command

\* _translate_to_windows(command)
translate_to_windows(command) ==
  LET parts == Split(Strip(command)) IN
  IF parts = <<>> THEN command
  ELSE
  LET cmd  == parts[1]
      args == IF Len(parts) > 1 THEN Tail(parts) ELSE <<>>
      last == args[Len(args)]
  IN
  CASE cmd = <<"l","s">> -> <<"G","e","t","-","C","h","i","l","d","I","t","e","m">>
    [] cmd = <<"p","w","d">> -> <<"G","e","t","-","L","o","c","a","t","i","o","n">>
    [] cmd = <<"c","a","t">> ->
         IF args # <<>> THEN <<"G","e","t","-","C","o","n","t","e","n","t"," ">> \o Quoted(args[1])
         ELSE <<"W","r","i","t","e","-","H","o","s","t"," ","\"","c","a","t",":"," ","m","i","s","s","i","n","g"," ","f","i","l","e"," ","n","a","m","e","\"">>
    [] cmd = <<"h","e","a","d">> ->
         IF args # <<>> THEN <<"G","e","t","-","C","o","n","t","e","n","t"," ">> \o Quoted(last) \o <<" ","|"," ","S","e","l","e","c","t","-","O","b","j","e","c","t"," ","-","F","i","r","s","t"," ","1","0">>
         ELSE <<"W","r","i","t","e","-","H","o","s","t"," ","\"","h","e","a","d",":"," ","m","i","s","s","i","n","g"," ","f","i","l","e"," ","n","a","m","e","\"">>
    [] cmd = <<"t","a","i","l">> ->
         IF args # <<>> THEN <<"G","e","t","-","C","o","n","t","e","n","t"," ">> \o Quoted(last) \o <<" ","|"," ","S","e","l","e","c","t","-","O","b","j","e","c","t"," ","-","L","a","s","t"," ","1","0">>
         ELSE <<"W","r","i","t","e","-","H","o","s","t"," ","\"","t","a","i","l",":"," ","m","i","s","s","i","n","g"," ","f","i","l","e"," ","n","a","m","e","\"">>
    [] cmd = <<"t","o","u","c","h">> ->
         IF args # <<>>
         THEN <<"i","f"," ","(","T","e","s","t","-","P","a","t","h"," ">> \o Quoted(args[1]) \o <<")"," ","{"," ","(","G","e","t","-","I","t","e","m"," ">> \o Quoted(args[1])
              \o <<")",".","L","a","s","t","W","r","i","t","e","T","i","m","e"," ","="," ","G","e","t","-","D","a","t","e"," ","}"," ","e","l","s","e"," ","{"," ","N","e","w","-","I","t","e","m"," ","-","I","t","e","m","T","y","p","e"," ","F","i","l","e"," ">>
              \o Quoted(args[1]) \o <<" ","|"," ","O","u","t","-","N","u","l","l"," ","}">>
         ELSE <<"W","r","i","t","e","-","H","o","s","t"," ","\"","t","o","u","c","h",":"," ","m","i","s","s","i","n","g"," ","f","i","l","e"," ","n","a","m","e","\"">>
    [] cmd = <<"m","k","d","i","r">> ->
         IF args # <<>> THEN <<"N","e","w","-","I","t","e","m"," ","-","I","t","e","m","T","y","p","e"," ","D","i","r","e","c","t","o","r","y"," ">> \o Quoted(args[1]) \o <<" ","-","F","o","r","c","e">>
         ELSE <<"W","r","i","t","e","-","H","o","s","t"," ","\"","m","k","d","i","r",":"," ","m","i","s","s","i","n","g"," ","d","i","r","e","c","t","o","r","y"," ","n","a","m","e","\"">>
    [] cmd = <<"r","m">> ->
         IF args # <<>> THEN <<"R","e","m","o","v","e","-","I","t","e","m"," ">> \o Quoted(args[1]) \o <<" ","-","F","o","r","c","e">>
         ELSE <<"W","r","i","t","e","-","H","o","s","t"," ","\"","r","m",":"," ","m","i","s","s","i","n","g"," ","f","i","l","e"," ","n","a","m","e","\"">>
    [] cmd = <<"c","p">> ->
         IF Len(args) >= 2 THEN <<"C","o","p","y","-","I","t","e","m"," ">> \o Quoted(args[1]) \o <<" ">> \o Quoted(args[2])
         ELSE <<"W","r","i","t","e","-","H","o","s","t"," ","\"","c","p",":"," ","n","e","e","d"," ","s","o","u","r","c","e"," ","a","n","d"," ","d","e","s","t","i","n","a","t","i","o","n","\"">>
    [] cmd = <<"m","v">> ->
         IF Len(args) >= 2 THEN <<"M","o","v","e","-","I","t","e","m"," ">> \o Quoted(args[1]) \o <<" ">> \o Quoted(args[2])
         ELSE <<"W","r","i","t","e","-","H","o","s","t"," ","\"","m","v",":"," ","n","e","e","d"," ","s","o","u","r","c","e"," ","a","n","d"," ","d","e","s","t","i","n","a","t","i","o","n","\"">>
    [] cmd = <<"e","c","h","o">> ->
         IF args # <<>> THEN <<"W","r","i","t","e","-","O","u","t","p","u","t"," ">> \o Join(args)
         ELSE <<"W","r","i","t","e","-","O","u","t","p","u","t"," ","\"","\"">>
    [] cmd = <<"c","l","e","a","r">> -> <<"C","l","e","a","r","-","H","o","s","t">>
    [] cmd = <<"p","s">> -> <<"G","e","t","-","P","r","o","c","e","s","s"," ","|"," ","S","e","l","e","c","t","-","O","b","j","e","c","t"," ","P","r","o","c","e","s","s","N","a","m","e",",","I","d",",","C","P","U">>
    [] cmd = <<"k","i","l","l">> ->
         IF args # <<>> THEN <<"S","t","o","p","-","P","r","o","c","e","s","s"," ","-","I","d"," ">> \o args[1] \o <<" ","-","F","o","r","c","e">>
         ELSE <<"W","r","i","t","e","-","H","o","s","t"," ","\"","k","i","l","l",":"," ","m","i","s","s","i","n","g"," ","p","r","o","c","e","s","s"," ","I","D","\"">>
    [] cmd = <<"g","r","e","p">> ->
         IF args # <<>> THEN <<"S","e","l","e","c","t","-","S","t","r","i","n","g"," ">> \o Join(args)
         ELSE <<"W","r","i","t","e","-","H","o","s","t"," ","\"","g","r","e","p",":"," ","m","i","s","s","i","n","g"," ","s","e","a","r","c","h"," ","p","a","t","t","e","r","n","\"">>
    [] cmd = <<"f","i","n","d">> ->
         <<"G","e","t","-","C","h","i","l","d","I","t","e","m"," ","-","P","a","t","h"," ">> \o Quoted(IF args # <<>> THEN args[1] ELSE <<".">>) \o <<" ","-","R","e","c","u","r","s","e">>
    [] cmd = <<"d","f">> -> <<"G","e","t","-","P","S","D","r","i","v","e"," ","-","P","S","P","r","o","v","i","d","e","r"," ","F","i","l","e","S","y","s","t","e","m">>
    [] cmd = <<"w","h","o","a","m","i">> -> <<"$","e","n","v",":","U","S","E","R","N","A","M","E">>
    [] cmd = <<"h","o","s","t","n","a","m","e">> -> <<"$","e","n","v",":","C","O","M","P","U","T","E","R","N","A","M","E">>
    [] cmd = <<"d","a","t","e">> -> <<"G","e","t","-","D","a","t","e">>
    [] cmd = <<"w","c">> ->
         IF args # <<>>
         THEN <<"G","e","t","-","C","o","n","t","e","n","t"," ">> \o Quoted(args[1]) \o <<" ","|"," ","M","e","a","s","u","r","e","-","O","b","j","e","c","t"," ","-","L","i","n","e"," ","-","W","o","r","d"," ","-","C","h","a","r","a","c","t","e","r">>
         ELSE <<"W","r","i","t","e","-","H","o","s","t"," ","\"","w","c",":"," ","m","i","s","s","i","n","g"," ","f","i","l","e"," ","n","a","m","e","\"">>
    [] OTHER -> command

\* fallback_tokens
fallback_tokens ==
  { <<"b","a","s","h",":"," ","n","o","t"," ","f","o","u","n","d">>, <<"n","o"," ","i","n","s","t","a","l","l","e","d"," ","d","i","s","t","r","i","b","u","t","i","o","n","s">>, <<"w","s","l",".","e","x","e"," ","w","a","s"," ","n","o","t"," ","f","o","u","n","d">>,
    <<"t","h","e"," ","s","y","s","t","e","m"," ","c","a","n","n","o","t"," ","f","i","n","d"," ","t","h","e"," ","f","i","l","e"," ","s","p","e","c","i","f","i","e","d">> }

\* _should_fallback_to_powershell(stderr)
should_fallback_to_powershell(stderr) ==
  IF stderr = <<>> THEN FALSE
  ELSE \E token \in fallback_tokens : Contains(Lower(stderr), token)

(***************************************************************************)
(* SafetyGate                                                              *)
(***************************************************************************)

\* RiskLevel
SAFE == "safe"
LOW == "low"
MEDIUM == "medium"
HIGH == "high"
CRITICAL == "critical"

\* the result (flag, reason) of one of the four checks
Hit(reason) == [hit |-> TRUE, reason |-> reason]
Miss == [hit |-> FALSE, reason |-> <<>>]

\* the first element of the list that occurs in text, lower-cased, or 0
RECURSIVE FirstMatch(_, _, _)
FirstMatch(list, text, i) ==
  IF i > Len(list) THEN 0
  ELSE IF Contains(text, Lower(list[i])) THEN i
  ELSE FirstMatch(list, text, i + 1)

\* a critical check that does not know fork bombs
is_critical_command_without_fork_bomb(dangerous_commands, command) ==
  LET command_lower == Lower(command) IN
  IF Contains(command, <<"r","m"," ","-","r","f"," ","/">>) \/ Contains(command, <<"r","m"," ","-","f","r"," ","/">>)
  THEN Hit(<<"A","t","t","e","m","p","t","i","n","g"," ","t","o"," ","d","e","l","e","t","e"," ","r","o","o","t"," ","d","i","r","e","c","t","o","r","y">>)
  ELSE IF Contains(command_lower, <<"m","k","f","s">>) \/ Contains(command_lower, <<"f","o","r","m","a","t">>)
  THEN Hit(<<"A","t","t","e","m","p","t","i","n","g"," ","t","o"," ","f","o","r","m","a","t"," ","h","a","r","d"," ","d","r","i","v","e">>)
  ELSE IF Contains(command_lower, <<"d","d"," ","i","f","=","/","d","e","v","/","z","e","r","o">>) \/ Contains(command_lower, <<"d","d"," ","i","f","=","/","d","e","v","/","r","a","n","d","o","m">>)
  THEN Hit(<<"A","t","t","e","m","p","t","i","n","g"," ","t","o"," ","o","v","e","r","w","r","i","t","e"," ","h","a","r","d"," ","d","r","i","v","e">>)
  ELSE IF FirstMatch(dangerous_commands, command_lower, 1) # 0
  THEN Hit(<<"M","a","t","c","h","e","s"," ","d","a","n","g","e","r","o","u","s"," ","p","a","t","t","e","r","n",":"," ">>
           \o dangerous_commands[FirstMatch(dangerous_commands, command_lower, 1)])
  ELSE Miss

\* _is_critical_command(command), with self.dangerous_commands
is_critical_command(dangerous_commands, command) ==
  LET command_lower == Lower(command) IN
  IF Contains(command, <<":","(",")","{">>) \/ Contains(command, <<":","|",":","&">>)
  THEN Hit(<<"F","o","r","k"," ","b","o","m","b"," ","d","e","t","e","c","t","e","d"," ","-"," ","w","o","u","l","d"," ","c","r","a","s","h"," ","s","y","s","t","e","m">>)
  ELSE IF Contains(command, <<"r","m"," ","-","r","f"," ","/">>) \/ Contains(command, <<"r","m"," ","-","f","r"," ","/">>)
  THEN Hit(<<"A","t","t","e","m","p","t","i","n","g"," ","t","o"," ","d","e","l","e","t","e"," ","r","o","o","t"," ","d","i","r","e","c","t","o","r","y">>)
  ELSE IF Contains(command_lower, <<"m","k","f","s">>) \/ Contains(command_lower, <<"f","o","r","m","a","t">>)
  THEN Hit(<<"A","t","t","e","m","p","t","i","n","g"," ","t","o"," ","f","o","r","m","a","t"," ","h","a","r","d"," ","d","r","i","v","e">>)
  ELSE IF Contains(command_lower, <<"d","d"," ","i","f","=","/","d","e","v","/","z","e","r","o">>) \/ Contains(command_lower, <<"d","d"," ","i","f","=","/","d","e","v","/","r","a","n","d","o","m">>)
  THEN Hit(<<"A","t","t","e","m","p","t","i","n","g"," ","t","o"," ","o","v","e","r","w","r","i","t","e"," ","h","a","r","d"," ","d","r","i","v","e">>)
  ELSE IF /\ \E path \in { <<"/","b","o","o","t">>, <<"/","d","e","v","/","s","d","a">>, <<"/","d","e","v","/","n","v","m","e">> } : Contains(command_lower, path)
          /\ \/ Contains(command_lower, <<"r","m">>)
             \/ Contains(command_lower, <<"d","d">>)
             \/ Contains(command, <<">">>)
  THEN Hit(<<"A","t","t","e","m","p","t","i","n","g"," ","t","o"," ","d","e","s","t","r","o","y"," ","b","o","o","t"," ","p","a","r","t","i","t","i","o","n">>)
  ELSE IF FirstMatch(dangerous_commands, command_lower, 1) # 0
  THEN Hit(<<"M","a","t","c","h","e","s"," ","d","a","n","g","e","r","o","u","s"," ","p","a","t","t","e","r","n",":"," ">>
           \o dangerous_commands[FirstMatch(dangerous_commands, command_lower, 1)])
  ELSE Miss

\* a high-risk check whose recursive-delete rule ignores path separators
is_high_risk_command_any_target(command) ==
  LET command_lower == Lower(command) IN
  IF Contains(command, <<"r","m"," ","-","r","f">>) \/ Contains(command, <<"r","m"," ","-","f","r">>)
  THEN Hit(<<"R","e","c","u","r","s","i","v","e"," ","d","e","l","e","t","e"," ","d","e","t","e","c","t","e","d">>)
  ELSE IF Contains(command_lower, <<"c","h","m","o","d"," ","-","r">>) \/ Contains(command_lower, <<"c","h","o","w","n"," ","-","r">>)
  THEN Hit(<<"R","e","c","u","r","s","i","v","e"," ","p","e","r","m","i","s","s","i","o","n"," ","c","h","a","n","g","e"," ","d","e","t","e","c","t","e","d">>)
  ELSE IF /\ Contains(command_lower, <<"k","i","l","l">>)
          /\ Contains(command, <<" ","1">>) \/ Contains(command, <<"-","9"," ","1">>)
  THEN Hit(<<"A","t","t","e","m","p","t","i","n","g"," ","t","o"," ","k","i","l","l"," ","i","n","i","t"," ","p","r","o","c","e","s","s">>)
  ELSE Miss

\* _is_high_risk_command(command)
is_high_risk_command(command) ==
  LET command_lower == Lower(command) IN
  IF /\ Contains(command, <<"r","m"," ","-","r","f">>) \/ Contains(command, <<"r","m"," ","-","f","r">>)
     /\ ~Contains(command, <<"/">>)
  THEN Hit(<<"R","e","c","u","r","s","i","v","e"," ","d","e","l","e","t","e"," ","d","e","t","e","c","t","e","d">>)
  ELSE IF Contains(command_lower, <<"c","h","m","o","d"," ","-","r">>) \/ Contains(command_lower, <<"c","h","o","w","n"," ","-","r">>)
  THEN Hit(<<"R","e","c","u","r","s","i","v","e"," ","p","e","r","m","i","s","s","i","o","n"," ","c","h","a","n","g","e"," ","d","e","t","e","c","t","e","d">>)
  ELSE IF /\ Contains(command_lower, <<"k","i","l","l">>)
          /\ Contains(command, <<" ","1">>) \/ Contains(command, <<"-","9"," ","1">>)
  THEN Hit(<<"A","t","t","e","m","p","t","i","n","g"," ","t","o"," ","k","i","l","l"," ","i","n","i","t"," ","p","r","o","c","e","s","s">>)
  ELSE IF /\ \E path \in { <<"c",":","\\","w","i","n","d","o","w","s">>, <<"c",":","\\","p","r","o","g","r","a","m"," ","f","i","l","e","s">> } : Contains(command_lower, path)
          /\ Contains(command_lower, <<"r","m">>) \/ Contains(command_lower, <<"d","e","l">>)
  THEN Hit(<<"A","t","t","e","m","p","t","i","n","g"," ","t","o"," ","d","e","l","e","t","e"," ","W","i","n","d","o","w","s"," ","s","y","s","t","e","m"," ","f","o","l","d","e","r">>)
  ELSE Miss

\* _is_medium_risk_command(command), with self.sensitive_paths
is_medium_risk_command(sensitive_paths, command) ==
  LET command_lower == Lower(command) IN
  IF /\ Contains(command_lower, <<"r","m">>) \/ Contains(command_lower, <<"d","e","l">>)
     /\ Contains(command, <<"*">>)
  THEN Hit(<<"D","e","l","e","t","i","n","g"," ","m","u","l","t","i","p","l","e"," ","f","i","l","e","s"," ","w","i","t","h"," ","w","i","l","d","c","a","r","d">>)
  ELSE IF Contains(command_lower, <<"c","h","m","o","d">>) \/ Contains(command_lower, <<"i","c","a","c","l","s">>)
  THEN Hit(<<"C","h","a","n","g","i","n","g"," ","f","i","l","e"," ","p","e","r","m","i","s","s","i","o","n","s">>)
  ELSE IF FirstMatch(sensitive_paths, command_lower, 1) # 0
  THEN Hit(<<"A","c","c","e","s","s","i","n","g"," ","s","e","n","s","i","t","i","v","e"," ","p","a","t","h",":"," ">>
           \o sensitive_paths[FirstMatch(sensitive_paths, command_lower, 1)])
  ELSE Miss

\* confirm_commands
confirm_commands == { <<"r","m">>, <<"d","e","l">>, <<"k","i","l","l">>, <<"c","h","m","o","d">>, <<"c","h","o","w","n">>, <<"r","m","d","i","r">> }

\* _needs_confirmation(command)
needs_confirmation(command) ==
  LET parts == Split(Lower(command)) IN
  IF parts = <<>> THEN Miss
  ELSE IF parts[1] \in confirm_commands
  THEN Hit(<<"'">> \o parts[1] \o <<"'"," ","c","o","m","m","a","n","d"," ","r","e","q","u","i","r","e","s"," ","c","o","n","f","i","r","m","a","t","i","o","n">>)
  ELSE Miss

\* a verdict of evaluate_command
Verdict(allowed, risk_level, reason, warnings) ==
  [allowed |-> allowed, risk_level |-> risk_level, reason |-> reason, warnings |-> warnings]

\* a gate whose sandbox mode lets blocked commands through
evaluate_command_sandboxed(g, command) ==
  IF ~g.enabled
  THEN Verdict(TRUE, SAFE, <<"S","a","f","e","t","y"," ","g","a","t","e"," ","d","i","s","a","b","l","e","d">>, <<>>)
  ELSE IF is_critical_command(g.dangerous_commands, command).hit
  THEN Verdict(g.sandbox_mode, CRITICAL, is_critical_command(g.dangerous_commands, command).reason,
               << <<"T","h","i","s"," ","c","o","m","m","a","n","d"," ","c","o","u","l","d"," ","d","e","s","t","r","o","y"," ","y","o","u","r"," ","s","y","s","t","e","m","!">> >>)
  ELSE IF is_high_risk_command(command).hit
  THEN Verdict(g.sandbox_mode, HIGH, is_high_risk_command(command).reason,
               << <<"T","h","i","s"," ","c","o","m","m","a","n","d"," ","i","s"," ","v","e","r","y"," ","d","a","n","g","e","r","o","u","s","!">> >>)
  ELSE IF is_medium_risk_command(g.sensitive_paths, command).hit
  THEN Verdict(TRUE, MEDIUM, <<>>, << is_medium_risk_command(g.sensitive_paths, command).reason >>)
  ELSE IF needs_confirmation(command).hit
  THEN Verdict(TRUE, LOW, <<>>, << needs_confirmation(command).reason >>)
  ELSE Verdict(TRUE, SAFE, <<>>, <<>>)

\* a gate that looks at the medium-risk rules before the critical ones
evaluate_command_medium_first(g, command) ==
  IF ~g.enabled
  THEN Verdict(TRUE, SAFE, <<"S","a","f","e","t","y"," ","g","a","t","e"," ","d","i","s","a","b","l","e","d">>, <<>>)
  ELSE IF is_medium_risk_command(g.sensitive_paths, command).hit
  THEN Verdict(TRUE, MEDIUM, <<>>, << is_medium_risk_command(g.sensitive_paths, command).reason >>)
  ELSE IF is_critical_command(g.dangerous_commands, command).hit
  THEN Verdict(FALSE, CRITICAL, is_critical_command(g.dangerous_commands, command).reason,
               << <<"T","h","i","s"," ","c","o","m","m","a","n","d"," ","c","o","u","l","d"," ","d","e","s","t","r","o","y"," ","y","o","u","r"," ","s","y","s","t","e","m","!">> >>)
  ELSE IF is_high_risk_command(command).hit
  THEN Verdict(FALSE, HIGH, is_high_risk_command(command).reason,
               << <<"T","h","i","s"," ","c","o","m","m","a","n","d"," ","i","s"," ","v","e","r","y"," ","d","a","n","g","e","r","o","u","s","!">> >>)
  ELSE IF needs_confirmation(command).hit
  THEN Verdict(TRUE, LOW, <<>>, << needs_confirmation(command).reason >>)
  ELSE Verdict(TRUE, SAFE, <<>>, <<>>)

\* a gate that classifies even when it is disabled
evaluate_command_always_on(g, command) ==
  IF is_critical_command(g.dangerous_commands, command).hit
  THEN Verdict(FALSE, CRITICAL, is_critical_command(g.dangerous_commands, command).reason,
               << <<"T","h","i","s"," ","c","o","m","m","a","n","d"," ","c","o","u","l","d"," ","d","e","s","t","r","o","y"," ","y","o","u","r"," ","s","y","s","t","e","m","!">> >>)
  ELSE IF is_high_risk_command(command).hit
  THEN Verdict(FALSE, HIGH, is_high_risk_command(command).reason,
               << <<"T","h","i","s"," ","c","o","m","m","a","n","d"," ","i","s"," ","v","e","r","y"," ","d","a","n","g","e","r","o","u","s","!">> >>)
  ELSE IF is_medium_risk_command(g.sensitive_paths, command).hit
  THEN Verdict(TRUE, MEDIUM, <<>>, << is_medium_risk_command(g.sensitive_paths, command).reason >>)
  ELSE IF needs_confirmation(command).hit
  THEN Verdict(TRUE, LOW, <<>>, << needs_confirmation(command).reason >>)
  ELSE Verdict(TRUE, SAFE, <<>>, <<>>)

\* a gate that reports the medium-risk finding as the reason of an allowed verdict
evaluate_command_reason_for_warning(g, command) ==
  IF ~g.enabled
  THEN Verdict(TRUE, SAFE, <<"S","a","f","e","t","y"," ","g","a","t","e"," ","d","i","s","a","b","l","e","d">>, <<>>)
  ELSE IF is_critical_command(g.dangerous_commands, command).hit
  THEN Verdict(FALSE, CRITICAL, is_critical_command(g.dangerous_commands, command).reason,
               << <<"T","h","i","s"," ","c","o","m","m","a","n","d"," ","c","o","u","l","d"," ","d","e","s","t","r","o","y"," ","y","o","u","r"," ","s","y","s","t","e","m","!">> >>)
  ELSE IF is_high_risk_command(command).hit
  THEN Verdict(FALSE, HIGH, is_high_risk_command(command).reason,
               << <<"T","h","i","s"," ","c","o","m","m","a","n","d"," ","i","s"," ","v","e","r","y"," ","d","a","n","g","e","r","o","u","s","!">> >>)
  ELSE IF is_medium_risk_command(g.sensitive_paths, command).hit
  THEN Verdict(TRUE, MEDIUM, is_medium_risk_command(g.sensitive_paths, command).reason,
               << is_medium_risk_command(g.sensitive_paths, command).reason >>)
  ELSE IF needs_confirmation(command).hit
  THEN Verdict(TRUE, LOW, <<>>, << needs_confirmation(command).reason >>)
  ELSE Verdict(TRUE, SAFE, <<>>, <<>>)

\* evaluate_command(command) on a gate with the fields of g
evaluate_command(g, command) ==
  IF ~g.enabled
  THEN Verdict(TRUE, SAFE, <<"S","a","f","e","t","y"," ","g","a","t","e"," ","d","i","s","a","b","l","e","d">>, <<>>)
  ELSE IF is_critical_command(g.dangerous_commands, command).hit
  THEN Verdict(FALSE, CRITICAL, is_critical_command(g.dangerous_commands, command).reason,
               << <<"T","h","i","s"," ","c","o","m","m","a","n","d"," ","c","o","u","l","d"," ","d","e","s","t","r","o","y"," ","y","o","u","r"," ","s","y","s","t","e","m","!">> >>)
  ELSE IF is_high_risk_command(command).hit
  THEN Verdict(FALSE, HIGH, is_high_risk_command(command).reason,
               << <<"T","h","i","s"," ","c","o","m","m","a","n","d"," ","i","s"," ","v","e","r","y"," ","d","a","n","g","e","r","o","u","s","!">> >>)
  ELSE IF is_medium_risk_command(g.sensitive_paths, command).hit
  THEN Verdict(TRUE, MEDIUM, <<>>, << is_medium_risk_command(g.sensitive_paths, command).reason >>)
  ELSE IF needs_confirmation(command).hit
  THEN Verdict(TRUE, LOW, <<>>, << needs_confirmation(command).reason >>)
  ELSE Verdict(TRUE, SAFE, <<>>, <<>>)

(***************************************************************************)
(* CLIFramework and CommandRModel                                          *)
(***************************************************************************)

\* builtins of _parse_input
builtins == { <<"e","x","i","t">>, <<"q","u","i","t">>, <<"h","e","l","p">>, <<"t","e","a","m">>, <<"s","t","a","t","u","s">>, <<"m","e","t","r","i","c","s">>, <<"r">> }

\* _parse_input(user_input)
parse_input(user_input) ==
  LET parts == Split(user_input) IN
  IF parts = <<>>
  THEN [raw |-> user_input, command |-> <<>>, args |-> <<>>, is_builtin |-> FALSE]
  ELSE [raw |-> user_input, command |-> parts[1], args |-> Tail(parts),
        is_builtin |-> parts[1] \in builtins]

\* self.examples of CommandRModel: a template ends in the name, a command is fixed
examples ==
  << [patterns |-> << <<"m","a","k","e"," ","a"," ","f","o","l","d","e","r">>, <<"c","r","e","a","t","e"," ","a"," ","f","o","l","d","e","r">>, <<"n","e","w"," ","f","o","l","d","e","r">> >>,
      template |-> Some(<<"m","k","d","i","r"," ">>), default_name |-> <<"n","e","w","_","f","o","l","d","e","r">>, command |-> <<>>],
     [patterns |-> << <<"l","i","s","t"," ","f","i","l","e","s">>, <<"s","h","o","w"," ","f","i","l","e","s">>, <<"s","h","o","w"," ","d","i","r","e","c","t","o","r","y">>, <<"s","h","o","w"," ","f","o","l","d","e","r","s">> >>,
      template |-> None, default_name |-> <<>>, command |-> <<"l","s">>],
     [patterns |-> << <<"w","h","e","r","e"," ","a","m"," ","i">>, <<"c","u","r","r","e","n","t"," ","d","i","r","e","c","t","o","r","y">>, <<"s","h","o","w"," ","c","u","r","r","e","n","t"," ","d","i","r","e","c","t","o","r","y">> >>,
      template |-> None, default_name |-> <<>>, command |-> <<"p","w","d">>],
     [patterns |-> << <<"d","e","l","e","t","e"," ","f","o","l","d","e","r">>, <<"r","e","m","o","v","e"," ","f","o","l","d","e","r">> >>,
      template |-> Some(<<"r","m"," ">>), default_name |-> <<"f","o","l","d","e","r","_","t","o","_","d","e","l","e","t","e">>, command |-> <<>>] >>

\* _extract_name(text, prefix, default)
extract_name(text, prefix, default) ==
  LET rest == Strip(SubSeq(text, Len(prefix) + 1, Len(text))) IN
  IF rest = <<>> THEN default ELSE Split(rest)[1]

\* _pattern_match(text): the command of the first example and pattern that text
\* starts with, or None
RECURSIVE pattern_match_from(_, _, _)
pattern_match_from(text, e, p) ==
  IF e > Len(examples) THEN None
  ELSE IF p > Len(examples[e].patterns) THEN pattern_match_from(text, e + 1, 1)
  ELSE IF StartsWith(text, examples[e].patterns[p])
  THEN IF examples[e].template # None
       THEN Some(examples[e].template[1]
                 \o extract_name(text, examples[e].patterns[p], examples[e].default_name))
       ELSE Some(examples[e].command)
  ELSE pattern_match_from(text, e, p + 1)

pattern_match(text) == pattern_match_from(text, 1, 1)

(***************************************************************************)
(* Inputs and environment                                                  *)
(***************************************************************************)

\* number of top-level execute() calls explored
MaxCalls == 1

\* config.get('timeout', 300)
DefaultTimeout == 300

\* command strings passed to execute()
Commands == { <<"l","s"," ","-","l","a">>, <<"g","i","t"," ","s","t","a","t","u","s">> }

\* working_dir and timeout arguments: both left out, or both given
CallOptions ==
  { [working_dir |-> None, timeout |-> None],
    [working_dir |-> None, timeout |-> Some(0)],
    [working_dir |-> Some(<<"C",":","\\","t","m","p">>), timeout |-> Some(5)] }

\* use_wsl arguments
UseWslArgs == { None, Some(TRUE), Some(FALSE) }

\* engine configurations: config.get('timeout'), config.get('use_wsl')
Configs == [ timeout : { None }, use_wsl : { None, Some(TRUE) } ]

\* what a child can have written to its pipes
ChildStdout == { <<"d","e","m","o","\n">> }
ChildStderr == { <<>>, <<"p","e","r","m","i","s","s","i","o","n"," ","d","e","n","i","e","d">>, <<"w","s","l",":"," ","B","a","s","h",":"," ","N","o","t"," ","F","o","u","n","d">> }

\* exit codes of a child that exits by itself
ChildExitCodes == { 0, 1 }

\* returncode of a killed child: -SIGKILL on POSIX, 1 from TerminateProcess on Windows
KilledExitCodes == { 1 }

\* str(e) of the exceptions Popen and communicate can raise
PopenErrors == { <<"[","W","i","n","E","r","r","o","r"," ","2","]"," ","T","h","e"," ","s","y","s","t","e","m"," ","c","a","n","n","o","t"," ","f","i","n","d"," ","t","h","e"," ","f","i","l","e"," ","s","p","e","c","i","f","i","e","d">> }
CommunicateErrors == { <<"'","c","h","a","r","m","a","p","'"," ","c","o","d","e","c"," ","c","a","n","'","t"," ","d","e","c","o","d","e"," ","b","y","t","e"," ","0","x","8","1">> }

\* clock ticks that pass while execute() is blocked on the child; datetime.now()
\* is taken never to step backwards between two readings
Ticks == { 1 }

\* outcomes of the availability probe:
\*   which   shutil.which('wsl') found the executable
\*   raised  subprocess.run raised (spawn error or TimeoutExpired)
ProbeEnvs ==
  { [which |-> FALSE, raised |-> FALSE, returncode |-> 0, stderr |-> <<>>],
    [which |-> TRUE,  raised |-> TRUE,  returncode |-> 0, stderr |-> <<>>],
    [which |-> TRUE,  raised |-> FALSE, returncode |-> 0, stderr |-> <<>>],
    [which |-> TRUE,  raised |-> FALSE, returncode |-> 1, stderr |-> <<"W","S","L"," ","i","s"," ","n","o","t"," ","e","n","a","b","l","e","d">>],
    [which |-> TRUE,  raised |-> FALSE, returncode |-> 1, stderr |-> <<"u","n","e","x","p","e","c","t","e","d">>] }

(***************************************************************************)
(* State                                                                   *)
(***************************************************************************)

VARIABLES
  constructed,         \* CommandExecutor.__init__ has run
  timeout,             \* self.timeout
  use_wsl,             \* self.use_wsl
  wsl_available,       \* self._wsl_available
  execution_history,   \* self.execution_history
  probes,              \* probe processes run by _detect_wsl so far
  now,                 \* datetime.now()
  calls,               \* top-level execute() calls made so far
  pc,                  \* position of the execute() call in progress
  call,                \* arguments of the top-level call in progress
  frame,               \* locals of the (innermost) execute() activation
  child,               \* the child process of that activation
  attempts,            \* the Popen calls of the top-level call, in order
  outcome,             \* how the last top-level call ended
  reply,               \* what the last call of a method that only reads returned
  threads,             \* the execute() calls other threads have in progress
  safety_gate,         \* the fields of the shell's SafetyGate
  command_r,           \* the fields of the shell's CommandRModel
  history,             \* the shell's CommandHistory
  running,             \* cli.running
  shell_pc,            \* position of OsirisTeamShell.run
  parsed,              \* parsed_command of the line in progress
  suggestion,          \* the command Command R suggested for it
  safety_result,       \* the verdict of the last evaluate_command call
  evaluated,           \* the command string that call was given
  lines                \* input lines read so far

engine == <<constructed, timeout, use_wsl, wsl_available>>

\* the state of the shell around the engine
shell == <<safety_gate, command_r, history, running, shell_pc, parsed, suggestion,
           safety_result, evaluated, lines>>

vars == <<constructed, timeout, use_wsl, wsl_available, execution_history, probes, now,
          calls, pc, call, frame, child, attempts, outcome, reply, threads,
          safety_gate, command_r, history, running, shell_pc, parsed, suggestion,
          safety_result, evaluated, lines>>

NoCall == [command |-> <<>>, working_dir |-> None, timeout |-> None, use_wsl |-> None,
           history_len |-> 0]
NoFrame == [depth |-> 0, use_wsl |-> FALSE, raised |-> FALSE]
NoChild == [state |-> "none"]
NoOutcome == [kind |-> "none"]
NoReply == [kind |-> "none"]

\* the threads that call execute() on one engine, and a thread that has not called
MaxThreads == 2
Threads == 1..MaxThreads
NoThread == [pc |-> "idle", command |-> <<>>, start_time |-> 0, history_len |-> 0,
             recorded |-> FALSE, result |-> NoOutcome]

(***************************************************************************)
(* CommandExecutor.__init__ and _detect_wsl                                *)
(***************************************************************************)

\* patterns of _detect_wsl
probe_patterns == { <<"b","a","s","h",":"," ","n","o","t"," ","f","o","u","n","d">>, <<"n","o"," ","i","n","s","t","a","l","l","e","d"," ","d","i","s","t","r","i","b","u","t","i","o","n","s">>, <<"w","s","l"," ","i","s"," ","n","o","t"," ","e","n","a","b","l","e","d">> }

\* a probe that takes every non-zero exit for a missing backend
detect_wsl_strict(env) ==
  IF ~env.which THEN FALSE
  ELSE IF env.raised THEN FALSE
  ELSE IF env.returncode # 0 THEN FALSE
  ELSE TRUE

\* _detect_wsl(): the flag it returns, given what the environment does
detect_wsl(env) ==
  IF ~env.which THEN FALSE
  ELSE IF env.raised THEN FALSE
  ELSE IF env.returncode # 0
          /\ \E pattern \in probe_patterns : Contains(Lower(env.stderr), pattern)
       THEN FALSE
  ELSE TRUE

\* a probe that is run once for wsl and once more for bash
detect_wsl_runs_twice(env) == IF env.which THEN 2 ELSE 0

\* _detect_wsl(): the probe processes it runs (subprocess.run is reached)
detect_wsl_runs(env) == IF env.which THEN 1 ELSE 0

\* config.get(key, default)
config_get(opt, default) == IF opt = None THEN default ELSE opt[1]

\* a constructor that keeps the configured preference whatever the probe says
ConstructKeepsPreference(config, env) ==
  /\ ~constructed
  /\ constructed' = TRUE
  /\ timeout' = config_get(config.timeout, DefaultTimeout)
  /\ wsl_available' = detect_wsl(env)
  /\ probes' = probes + detect_wsl_runs(env)
  /\ use_wsl' = config_get(config.use_wsl, FALSE)
  /\ execution_history' = <<>>
  /\ UNCHANGED <<now, calls, pc, call, frame, child, attempts, outcome>>

Construct(config, env) ==
  /\ ~constructed
  /\ constructed' = TRUE
  /\ timeout' = config_get(config.timeout, DefaultTimeout)
  /\ wsl_available' = detect_wsl(env)
  /\ probes' = probes + detect_wsl_runs(env)
  /\ use_wsl' = IF config_get(config.use_wsl, FALSE) /\ ~detect_wsl(env)
                THEN FALSE
                ELSE config_get(config.use_wsl, FALSE)
  /\ execution_history' = <<>>
  /\ UNCHANGED <<now, calls, pc, call, frame, child, attempts, outcome>>

(***************************************************************************)
(* CommandExecutor.execute                                                 *)
(***************************************************************************)

\* timeout = timeout or self.timeout
EffectiveTimeout(t) == IF t = None \/ t[1] = 0 THEN timeout ELSE t[1]

\* backend selection that honours the request without looking at _wsl_available
TargetsWslUngated(u) == IF u = None THEN use_wsl ELSE u[1]

\* lines 59-65: the backend the call targets (TRUE: WSL, FALSE: PowerShell)
TargetsWsl(u) ==
  LET requested == IF u = None THEN use_wsl ELSE u[1]
  IN  IF requested /\ ~wsl_available THEN FALSE ELSE requested

\* a translation applied on either backend
SpawnCommandAlwaysTranslates(wsl, command) ==
  IF is_linux_command(command) THEN translate_to_windows(command) ELSE command

\* lines 68-70: the command string handed to the child
SpawnCommand(wsl, command) ==
  IF ~wsl /\ is_linux_command(command) THEN translate_to_windows(command) ELSE command

\* lines 79-82: popen_cmd
popen_cmd(wsl, command) ==
  IF wsl THEN << <<"w","s","l">>, <<"b","a","s","h">>, <<"-","l","c">>, command >>
  ELSE << <<"p","o","w","e","r","s","h","e","l","l",".","e","x","e">>, <<"-","C","o","m","m","a","n","d">>, command >>

\* lines 55-73: the locals of an activation of execute()
Activation(command, working_dir, t, u, depth) ==
  [ depth            |-> depth,
    start_time       |-> now,
    timeout          |-> EffectiveTimeout(t),
    use_wsl          |-> TargetsWsl(u),
    original_command |-> command,
    command          |-> SpawnCommand(TargetsWsl(u), command),
    working_dir      |-> working_dir,
    stdout           |-> <<>>,
    stderr           |-> <<>>,
    raised           |-> FALSE,
    error            |-> <<>> ]

\* an execute() that probes lazily: a request for WSL while it is marked unavailable
\* runs the probe again and stores its answer
ExecuteReprobes(command, working_dir, t, u) ==
  /\ constructed
  /\ pc = "idle"
  /\ calls' = calls + 1
  /\ call' = [command |-> command, working_dir |-> working_dir, timeout |-> t, use_wsl |-> u,
              history_len |-> Len(execution_history)]
  /\ frame' = Activation(command, working_dir, t, u, 1)
  /\ pc' = "popen"
  /\ attempts' = <<>>
  /\ child' = NoChild
  /\ outcome' = NoOutcome
  /\ IF ~wsl_available
     THEN /\ wsl_available' = TRUE
          /\ probes' = probes + 1
     ELSE UNCHANGED <<wsl_available, probes>>
  /\ UNCHANGED <<constructed, timeout, use_wsl, execution_history, now>>

\* a top-level call execute(command, working_dir, t, use_wsl=u) starts;
\* capture_output keeps its default, True
Execute(command, working_dir, t, u) ==
  /\ constructed
  /\ pc = "idle"
  /\ calls' = calls + 1
  /\ call' = [command |-> command, working_dir |-> working_dir, timeout |-> t, use_wsl |-> u,
              history_len |-> Len(execution_history)]
  /\ frame' = Activation(command, working_dir, t, u, 1)
  /\ pc' = "popen"
  /\ attempts' = <<>>
  /\ child' = NoChild
  /\ outcome' = NoOutcome
  /\ UNCHANGED <<engine, execution_history, probes, now>>

\* the Popen call of the activation: started tells whether a child came of it,
\* expired whether the wait on that child ran out, exited, returncode, stdout and
\* stderr what communicate() collected from it
Attempt(started) ==
  [ wsl     |-> frame.use_wsl,
    argv    |-> popen_cmd(frame.use_wsl, frame.command),
    cwd     |-> frame.working_dir,
    timeout |-> frame.timeout,
    started |-> started,
    expired |-> FALSE,
    exited  |-> FALSE,
    returncode |-> 0,
    stdout  |-> <<>>,
    stderr  |-> <<>> ]

\* line 85: subprocess.Popen starts the child
PopenStart ==
  /\ pc = "popen"
  /\ child' = [state |-> "running"]
  /\ attempts' = Append(attempts, Attempt(TRUE))
  /\ pc' = "communicate"
  /\ UNCHANGED <<threads, reply, shell, engine, execution_history, probes, now, calls, call, frame, outcome>>

\* line 85: subprocess.Popen raises (the executable cannot be launched)
PopenRaise(msg) ==
  /\ pc = "popen"
  /\ attempts' = Append(attempts, Attempt(FALSE))
  /\ frame' = [frame EXCEPT !.raised = TRUE, !.error = msg]
  /\ pc' = "except"
  /\ UNCHANGED <<threads, reply, shell, engine, execution_history, probes, now, calls, call, child, outcome>>

\* the child exits by itself, leaving out and err in its pipes
ChildExit(out, err, code) ==
  /\ pc \in {"communicate", "kill"}
  /\ child.state = "running"
  /\ child' = [state |-> "exited", out |-> out, err |-> err, returncode |-> code]
  /\ UNCHANGED <<threads, reply, shell, engine, execution_history, probes, now, calls, pc, call, frame, attempts, outcome>>

\* line 95: communicate(timeout) returns the pipes of the exited child
CommunicateReturn(dt) ==
  /\ pc = "communicate"
  /\ child.state = "exited"
  /\ frame' = [frame EXCEPT !.stdout = child.out, !.stderr = child.err]
  /\ child' = [child EXCEPT !.state = "reaped"]
  /\ attempts' = [attempts EXCEPT ![Len(attempts)].exited = TRUE,
                                  ![Len(attempts)].returncode = child.returncode,
                                  ![Len(attempts)].stdout = child.out,
                                  ![Len(attempts)].stderr = child.err]
  /\ now' = now + dt
  /\ pc' = "check"
  /\ UNCHANGED <<threads, reply, shell, engine, execution_history, probes, calls, call, outcome>>

\* line 96: communicate(timeout) raises TimeoutExpired, the child still runs
CommunicateTimeout(dt) ==
  /\ pc = "communicate"
  /\ child.state = "running"
  /\ now' = now + dt
  /\ attempts' = [attempts EXCEPT ![Len(attempts)].expired = TRUE]
  /\ pc' = "kill"
  /\ UNCHANGED <<threads, reply, shell, engine, execution_history, probes, calls, call, frame, child, outcome>>

\* lines 95, 99: communicate raises another exception (the output cannot be decoded)
CommunicateRaise(msg) ==
  /\ pc \in {"communicate", "communicate_killed"}
  /\ frame' = [frame EXCEPT !.raised = TRUE, !.error = msg]
  /\ pc' = "except"
  /\ UNCHANGED <<threads, reply, shell, engine, execution_history, probes, now, calls, call, child, attempts, outcome>>

\* a kill that the child survives
KillLeavesRunning(out, err, code) ==
  /\ pc = "kill"
  /\ pc' = "communicate_killed"
  /\ UNCHANGED <<threads, reply, shell, engine, execution_history, probes, now, calls, call, frame, child, attempts, outcome>>

\* line 98: process.kill(); a child that already exited is left as it is
Kill(out, err, code) ==
  /\ pc = "kill"
  /\ child' = IF child.state = "running"
              THEN [state |-> "exited", out |-> out, err |-> err, returncode |-> code]
              ELSE child
  /\ pc' = "communicate_killed"
  /\ UNCHANGED <<threads, reply, shell, engine, execution_history, probes, now, calls, call, frame, attempts, outcome>>

\* the notice of line 100
TimeoutNotice(t) == <<"C","o","m","m","a","n","d"," ","t","i","m","e","o","u","t"," ","a","f","t","e","r"," ">> \o IntToStr(t) \o <<" ","s","e","c","o","n","d","s","\n">>

\* a timeout path that puts the notice after the child's stderr
CommunicateKilledAppends ==
  /\ pc = "communicate_killed"
  /\ child.state = "exited"
  /\ frame' = [frame EXCEPT !.stdout = child.out,
                            !.stderr = child.err \o TimeoutNotice(frame.timeout)]
  /\ child' = [child EXCEPT !.state = "reaped"]
  /\ attempts' = [attempts EXCEPT ![Len(attempts)].exited = TRUE,
                                  ![Len(attempts)].returncode = child.returncode,
                                  ![Len(attempts)].stdout = child.out,
                                  ![Len(attempts)].stderr = child.err]
  /\ pc' = "check"
  /\ UNCHANGED <<threads, reply, shell, engine, execution_history, probes, now, calls, call, outcome>>

\* lines 99-100: communicate() after the kill, and the notice
CommunicateKilled ==
  /\ pc = "communicate_killed"
  /\ child.state = "exited"
  /\ frame' = [frame EXCEPT !.stdout = child.out,
                            !.stderr = TimeoutNotice(frame.timeout) \o child.err]
  /\ child' = [child EXCEPT !.state = "reaped"]
  /\ attempts' = [attempts EXCEPT ![Len(attempts)].exited = TRUE,
                                  ![Len(attempts)].returncode = child.returncode,
                                  ![Len(attempts)].stdout = child.out,
                                  ![Len(attempts)].stderr = child.err]
  /\ pc' = "check"
  /\ UNCHANGED <<threads, reply, shell, engine, execution_history, probes, now, calls, call, outcome>>

\* a retry condition that does not look at the exit code
RetryConditionIgnoresExitCode ==
  /\ frame.use_wsl
  /\ should_fallback_to_powershell(frame.stderr)

\* line 105: the condition of the retry
RetryCondition ==
  /\ frame.use_wsl
  /\ child.returncode # 0
  /\ should_fallback_to_powershell(frame.stderr)

\* a retry that asks for WSL again
RetrySameBackend ==
  /\ pc = "check"
  /\ RetryCondition
  /\ frame' = Activation(frame.original_command, frame.working_dir, Some(frame.timeout),
                         Some(TRUE), frame.depth + 1)
  /\ pc' = "popen"
  /\ UNCHANGED <<threads, reply, shell, engine, execution_history, probes, now, calls, call, child, attempts, outcome>>

\* a retry that forgets the working directory and the timeout of the call
RetryDropsArguments ==
  /\ pc = "check"
  /\ RetryCondition
  /\ frame' = Activation(frame.original_command, None, None, Some(FALSE), frame.depth + 1)
  /\ pc' = "popen"
  /\ UNCHANGED <<threads, reply, shell, engine, execution_history, probes, now, calls, call, child, attempts, outcome>>

\* a retry that also marks WSL unavailable and makes PowerShell the default
RetryDemotes ==
  /\ pc = "check"
  /\ RetryCondition
  /\ frame' = Activation(frame.original_command, frame.working_dir, Some(frame.timeout),
                         Some(FALSE), frame.depth + 1)
  /\ pc' = "popen"
  /\ wsl_available' = FALSE
  /\ use_wsl' = FALSE
  /\ UNCHANGED <<threads, reply, shell, constructed, timeout, execution_history, probes, now, calls, call, child, attempts, outcome>>

\* lines 105-107: return self.execute(original_command, working_dir, timeout, capture_output, use_wsl=False)
Retry ==
  /\ pc = "check"
  /\ RetryCondition
  /\ frame' = Activation(frame.original_command, frame.working_dir, Some(frame.timeout),
                         Some(FALSE), frame.depth + 1)
  /\ pc' = "popen"
  /\ UNCHANGED <<threads, reply, shell, engine, execution_history, probes, now, calls, call, child, attempts, outcome>>

\* a result whose success is read off the error text
ResultSuccessFromError(command, output, error, exit_code, start_time, end_time) ==
  [ command    |-> command,
    output     |-> output,
    error      |-> error,
    exit_code  |-> exit_code,
    success    |-> (error = <<>>),
    duration   |-> end_time - start_time,
    start_time |-> start_time,
    end_time   |-> end_time ]

\* lines 108-121: the result dictionary
Result(command, output, error, exit_code, start_time, end_time) ==
  [ command    |-> command,
    output     |-> output,
    error      |-> error,
    exit_code  |-> exit_code,
    success    |-> (exit_code = 0),
    duration   |-> end_time - start_time,
    start_time |-> start_time,
    end_time   |-> end_time ]

\* a result that names the command as it was spawned
RecordSpawned ==
  /\ pc = "check"
  /\ ~RetryCondition
  /\ LET result == Result(frame.command, frame.stdout, frame.stderr,
                          child.returncode, frame.start_time, now)
     IN  /\ execution_history' = Append(execution_history, result)
         /\ outcome' = [kind |-> "returned", result |-> result]
  /\ pc' = "idle"
  /\ UNCHANGED <<threads, reply, shell, engine, probes, now, calls, call, frame, child, attempts>>

\* lines 108-132: build the result, append it to the history, return it
Record ==
  /\ pc = "check"
  /\ ~RetryCondition
  /\ LET result == Result(frame.original_command, frame.stdout, frame.stderr,
                          child.returncode, frame.start_time, now)
     IN  /\ execution_history' = Append(execution_history, result)
         /\ outcome' = [kind |-> "returned", result |-> result]
  /\ pc' = "idle"
  /\ UNCHANGED <<threads, reply, shell, engine, probes, now, calls, call, frame, child, attempts>>

\* a handler that lets the exception escape
ExceptReraises ==
  /\ pc = "except"
  /\ outcome' = [kind |-> "raised", error |-> frame.error]
  /\ pc' = "idle"
  /\ UNCHANGED <<threads, reply, shell, engine, execution_history, probes, now, calls, call, frame, child, attempts>>

\* lines 134-150: except Exception
Except ==
  /\ pc = "except"
  /\ outcome' = [kind |-> "returned",
                 result |-> Result(frame.original_command, <<>>, frame.error, -1,
                                   frame.start_time, now)]
  /\ pc' = "idle"
  /\ UNCHANGED <<threads, reply, shell, engine, execution_history, probes, now, calls, call, frame, child, attempts>>

(***************************************************************************)
(* Specification of the engine driven through its API                      *)
(***************************************************************************)

\* the shell's objects before OsirisTeamShell is created
NoGate == [enabled |-> TRUE, sandbox_mode |-> FALSE, dangerous_commands |-> <<>>,
           sensitive_paths |-> <<>>]
NoParsed == [raw |-> <<>>, command |-> <<>>, args |-> <<>>, is_builtin |-> FALSE]
NoVerdict == [allowed |-> FALSE, risk_level |-> "none", reason |-> <<>>, warnings |-> <<>>]

\* shell.max_history when the configuration does not give it
DefaultMaxHistory == 1000

Init ==
  /\ constructed = FALSE
  /\ timeout = 0
  /\ use_wsl = FALSE
  /\ wsl_available = FALSE
  /\ execution_history = <<>>
  /\ probes = 0
  /\ now = 0
  /\ calls = 0
  /\ pc = "idle"
  /\ call = NoCall
  /\ frame = NoFrame
  /\ child = NoChild
  /\ attempts = <<>>
  /\ outcome = NoOutcome
  /\ reply = NoReply
  /\ threads = [t \in Threads |-> NoThread]
  /\ safety_gate = NoGate
  /\ command_r = [enabled |-> TRUE]
  /\ history = [commands |-> <<>>, max_history |-> DefaultMaxHistory]
  /\ running = FALSE
  /\ shell_pc = "off"
  /\ parsed = NoParsed
  /\ suggestion = None
  /\ safety_result = NoVerdict
  /\ evaluated = None
  /\ lines = 0

\* the caller constructs the engine
New ==
  /\ \E config \in Configs, env \in ProbeEnvs : Construct(config, env)
  /\ UNCHANGED <<threads, reply, shell>>

\* the caller calls execute()
ApiCall ==
  /\ calls < MaxCalls
  /\ \E command \in Commands, opt \in CallOptions, u \in UseWslArgs :
       Execute(command, opt.working_dir, opt.timeout, u)
  /\ UNCHANGED <<threads, reply, shell>>

Next ==
  \/ New
  \/ ApiCall
  \/ PopenStart
  \/ \E msg \in PopenErrors : PopenRaise(msg)
  \/ \E out \in ChildStdout, err \in ChildStderr, code \in ChildExitCodes : ChildExit(out, err, code)
  \/ \E dt \in Ticks : CommunicateReturn(dt)
  \/ \E dt \in Ticks : CommunicateTimeout(dt)
  \/ \E msg \in CommunicateErrors : CommunicateRaise(msg)
  \/ \E out \in ChildStdout, err \in ChildStderr, code \in KilledExitCodes : Kill(out, err, code)
  \/ CommunicateKilled
  \/ Retry
  \/ Record
  \/ Except

Spec == Init /\ [][Next]_vars

\* the steps execute() takes by itself once it can: Popen returns, communicate
\* returns or runs out of time, the kill, the wait after the kill, the retry, and
\* the return of the result; a child's own exit and the exceptions are not forced
Progress ==
  \/ PopenStart
  \/ \E dt \in Ticks : CommunicateReturn(dt)
  \/ \E dt \in Ticks : CommunicateTimeout(dt)
  \/ \E out \in ChildStdout, err \in ChildStderr, code \in KilledExitCodes : Kill(out, err, code)
  \/ CommunicateKilled
  \/ Retry
  \/ Record
  \/ Except

\* the engine with a thread that keeps running and a timer that fires
SpecLive == Init /\ [][Next]_vars /\ WF_vars(Progress)


(***************************************************************************)
(* OsirisTeamShell: the loop around the gate and the engine                *)
(***************************************************************************)

\* lines read by one session
MaxLines == 2

\* the 'safety' section of the configuration
GateConfigs ==
  { [enabled |-> None, dangerous_commands |-> None],
    [enabled |-> None, dangerous_commands |-> Some(<< <<"p","w","d">> >>)],
    [enabled |-> Some(FALSE), dangerous_commands |-> None] }

\* the 'command_execution' section and the host the shell starts on
ShellConfigs == { [timeout |-> None, use_wsl |-> Some(TRUE)] }
ShellEnvs == { env \in ProbeEnvs : ~env.which \/ (~env.raised /\ env.returncode = 0) }

\* what the user types at the prompt
InputLines ==
  { <<" ","l","s"," ","-","l","a"," ">>, <<"r","m"," ","-","r","f"," ","/">>, <<" "," "," ">>, <<"h","e","l","p">>, <<"e","x","i","t">>, <<"s","t","a","t","u","s"," ","n","o","w">>,
    <<"r">>, <<"r"," ","L","i","s","t"," ","F","i","l","e","s">>, <<"r"," ","w","i","p","e"," ","t","h","e"," ","d","i","s","k">> }

\* what the local LLM answers when no pattern matches: nothing, or any command
LLMAnswers == { None, Some(<<"r","m"," ","-","r","f"," ","/">>), Some(<<"p","w","d">>) }

\* what the user answers to "Run this command? [y/N]"; None is end of input
Choices == { Some(<<" ","Y","e","s">>), Some(<<"n">>), None }

\* how children of the shell's commands end: with output, or without the backend
ShellChildren ==
  { [stdout |-> <<"d","e","m","o","\n">>, stderr |-> <<>>, returncode |-> 0],
    [stdout |-> <<>>, stderr |-> <<"w","s","l",":"," ","B","a","s","h",":"," ","N","o","t"," ","F","o","u","n","d">>, returncode |-> 1] }

\* SafetyGate(config)
SafetyGate(config) ==
  [enabled |-> config_get(config.enabled, TRUE),
   sandbox_mode |-> FALSE,
   dangerous_commands |-> config_get(config.dangerous_commands, <<>>),
   sensitive_paths |-> <<>>]

\* CommandHistory.add(command)
history_add(h, command) ==
  LET appended == Append(h.commands, command) IN
  [h EXCEPT !.commands =
     IF Len(appended) > h.max_history
     THEN SubSeq(appended, Len(appended) - h.max_history + 1, Len(appended))
     ELSE appended]

\* CommandRModel.suggest(instruction); llm is what _rag_suggest would answer
suggest(instruction, llm) ==
  LET text == Lower(Strip(instruction)) IN
  IF ~command_r.enabled THEN None
  ELSE IF text = <<>> THEN None
  ELSE IF pattern_match(text) # None THEN pattern_match(text)
  ELSE llm

\* OsirisTeamShell() and run() up to the first prompt
ShellStart(config, env, gate) ==
  /\ shell_pc = "off"
  /\ Construct(config, env)
  /\ safety_gate' = SafetyGate(gate)
  /\ command_r' = [enabled |-> TRUE]
  /\ history' = [commands |-> <<>>, max_history |-> DefaultMaxHistory]
  /\ running' = TRUE
  /\ shell_pc' = "prompt"
  /\ UNCHANGED <<parsed, suggestion, safety_result, evaluated, lines>>
  /\ UNCHANGED <<threads, reply>>

\* a loop that saves only the lines it is going to classify
ReadLineSavesCommandsOnly(user_input) ==
  /\ shell_pc = "prompt"
  /\ running
  /\ lines < MaxLines
  /\ lines' = lines + 1
  /\ IF Strip(user_input) = <<>>
     THEN UNCHANGED <<parsed, history, shell_pc>>
     ELSE /\ parsed' = parse_input(Strip(user_input))
          /\ history' = IF parse_input(Strip(user_input)).is_builtin
                        THEN history
                        ELSE history_add(history, parse_input(Strip(user_input)).raw)
          /\ shell_pc' = IF parse_input(Strip(user_input)).is_builtin THEN "builtin" ELSE "gate"
  /\ UNCHANGED <<safety_gate, command_r, running, suggestion, safety_result, evaluated>>
  /\ UNCHANGED <<engine, execution_history, probes, now, calls, pc, call, frame, child,
                 attempts, outcome, reply, threads>>

\* one turn of cli.start(): a blank line is skipped, any other is stripped,
\* parsed, yielded to run() and saved to the history
ReadLine(user_input) ==
  /\ shell_pc = "prompt"
  /\ running
  /\ lines < MaxLines
  /\ lines' = lines + 1
  /\ IF Strip(user_input) = <<>>
     THEN UNCHANGED <<parsed, history, shell_pc>>
     ELSE /\ parsed' = parse_input(Strip(user_input))
          /\ history' = history_add(history, parse_input(Strip(user_input)).raw)
          /\ shell_pc' = IF parse_input(Strip(user_input)).is_builtin THEN "builtin" ELSE "gate"
  /\ UNCHANGED <<safety_gate, command_r, running, suggestion, safety_result, evaluated>>
  /\ UNCHANGED <<engine, execution_history, probes, now, calls, pc, call, frame, child,
                 attempts, outcome, reply, threads>>

\* the input ends: cli.start() clears running and the loop is over
ReadEOF ==
  /\ shell_pc = "prompt"
  /\ running
  /\ running' = FALSE
  /\ shell_pc' = "stopped"
  /\ UNCHANGED <<safety_gate, command_r, history, parsed, suggestion, safety_result,
                 evaluated, lines>>
  /\ UNCHANGED <<engine, execution_history, probes, now, calls, pc, call, frame, child,
                 attempts, outcome, reply, threads>>

\* a built-in other than r: exit and quit end the loop, the others only display
Builtin ==
  /\ shell_pc = "builtin"
  /\ parsed.command # <<"r">>
  /\ IF parsed.command \in { <<"e","x","i","t">>, <<"q","u","i","t">> }
     THEN /\ running' = FALSE
          /\ shell_pc' = "stopped"
     ELSE /\ shell_pc' = "prompt"
          /\ UNCHANGED running
  /\ UNCHANGED <<safety_gate, command_r, history, parsed, suggestion, safety_result,
                 evaluated, lines>>
  /\ UNCHANGED <<engine, execution_history, probes, now, calls, pc, call, frame, child,
                 attempts, outcome, reply, threads>>

\* _handle_rag_command up to the confirmation prompt
RagSuggest(llm) ==
  /\ shell_pc = "builtin"
  /\ parsed.command = <<"r">>
  /\ IF parsed.args = <<>>
     THEN /\ shell_pc' = "prompt"
          /\ UNCHANGED suggestion
     ELSE LET instruction == Strip(Lower(Join(parsed.args))) IN
          /\ suggestion' = suggest(instruction, llm)
          /\ shell_pc' = IF suggest(instruction, llm) = None THEN "prompt" ELSE "confirm"
  /\ UNCHANGED <<safety_gate, command_r, history, running, parsed, safety_result,
                 evaluated, lines>>
  /\ UNCHANGED <<engine, execution_history, probes, now, calls, pc, call, frame, child,
                 attempts, outcome, reply, threads>>

\* the user's answer to the confirmation prompt
Confirm(answer) ==
  /\ shell_pc = "confirm"
  /\ LET choice == IF answer = None THEN <<"n">> ELSE Lower(Strip(answer[1])) IN
     shell_pc' = IF choice \in { <<"y">>, <<"y","e","s">> } THEN "rag_gate" ELSE "prompt"
  /\ UNCHANGED <<safety_gate, command_r, history, running, parsed, suggestion,
                 safety_result, evaluated, lines>>
  /\ UNCHANGED <<engine, execution_history, probes, now, calls, pc, call, frame, child,
                 attempts, outcome, reply, threads>>

\* the gate step letting a blocked line through
EvaluateIgnoresBlock ==
  /\ shell_pc = "gate"
  /\ safety_result' = evaluate_command(safety_gate, parsed.raw)
  /\ evaluated' = Some(parsed.raw)
  /\ shell_pc' = "run"
  /\ UNCHANGED <<safety_gate, command_r, history, running, parsed, suggestion, lines>>
  /\ UNCHANGED <<engine, execution_history, probes, now, calls, pc, call, frame, child,
                 attempts, outcome, reply, threads>>

\* run(), step 2: the gate's verdict on the typed line; a blocked line goes no further
Evaluate ==
  /\ shell_pc = "gate"
  /\ safety_result' = evaluate_command(safety_gate, parsed.raw)
  /\ evaluated' = Some(parsed.raw)
  /\ shell_pc' = IF evaluate_command(safety_gate, parsed.raw).allowed THEN "run" ELSE "prompt"
  /\ UNCHANGED <<safety_gate, command_r, history, running, parsed, suggestion, lines>>
  /\ UNCHANGED <<engine, execution_history, probes, now, calls, pc, call, frame, child,
                 attempts, outcome, reply, threads>>

\* SystemMonitor.__init__: the warning thresholds, in percent
cpu_high_threshold == 80
memory_high_threshold == 85
disk_high_threshold == 90

\* what get_current_metrics can return: None when psutil raises, else the readings
MonitorReadings ==
  { None,
    Some([cpu_percent |-> 10, memory_percent |-> 10, disk_percent |-> 50]),
    Some([cpu_percent |-> 95, memory_percent |-> 10, disk_percent |-> 50]),
    Some([cpu_percent |-> 10, memory_percent |-> 95, disk_percent |-> 95]) }

\* check_resource_pressure: a missing reading is taken once more, and a reading
\* that is still missing gives no pressure and one warning
check_resource_pressure(metrics, again) ==
  LET taken == IF metrics = None THEN again ELSE metrics IN
    IF taken = None
    THEN [cpu_pressure |-> FALSE, memory_pressure |-> FALSE, disk_pressure |-> FALSE,
          warnings |-> 1]
    ELSE LET cpu_high == taken[1].cpu_percent > cpu_high_threshold
             memory_high == taken[1].memory_percent > memory_high_threshold
             disk_high == taken[1].disk_percent > disk_high_threshold
         IN [cpu_pressure |-> cpu_high, memory_pressure |-> memory_high,
             disk_pressure |-> disk_high,
             warnings |-> (IF cpu_high THEN 1 ELSE 0) + (IF memory_high THEN 1 ELSE 0)
                          + (IF disk_high THEN 1 ELSE 0)]

\* run() with a monitor that holds a command back while the load is high
RunCommandYieldsToLoad(metrics, again) ==
  /\ shell_pc = "run"
  /\ LET pressure == check_resource_pressure(metrics, again) IN
       IF pressure.cpu_pressure \/ pressure.memory_pressure
       THEN /\ shell_pc' = "prompt"
            /\ UNCHANGED <<engine, execution_history, probes, now, calls, pc, call, frame,
                           child, attempts, outcome>>
       ELSE /\ Execute(parsed.raw, None, None, None)
            /\ shell_pc' = "executing"
  /\ UNCHANGED <<safety_gate, command_r, history, running, parsed, suggestion,
                 safety_result, evaluated, lines>>
  /\ UNCHANGED <<threads, reply>>

\* run(), steps 3 and 4: the monitor's reading decides only whether the load
\* warning is printed, then executor.execute(raw)
RunCommand(metrics, again) ==
  /\ shell_pc = "run"
  /\ LET pressure == check_resource_pressure(metrics, again) IN
       (pressure.cpu_pressure \/ pressure.memory_pressure) \in BOOLEAN
  /\ Execute(parsed.raw, None, None, None)
  /\ shell_pc' = "executing"
  /\ UNCHANGED <<safety_gate, command_r, history, running, parsed, suggestion,
                 safety_result, evaluated, lines>>
  /\ UNCHANGED <<threads, reply>>

\* _handle_rag_command: the gate's verdict on the confirmed suggestion
RagEvaluate ==
  /\ shell_pc = "rag_gate"
  /\ safety_result' = evaluate_command(safety_gate, suggestion[1])
  /\ evaluated' = Some(suggestion[1])
  /\ shell_pc' = IF evaluate_command(safety_gate, suggestion[1]).allowed
                 THEN "rag_run" ELSE "prompt"
  /\ UNCHANGED <<safety_gate, command_r, history, running, parsed, suggestion, lines>>
  /\ UNCHANGED <<engine, execution_history, probes, now, calls, pc, call, frame, child,
                 attempts, outcome, reply, threads>>

\* a suggestion run like a typed line, with the engine's default routing
RagRunDefaultRouting ==
  /\ shell_pc = "rag_run"
  /\ Execute(suggestion[1], None, None, None)
  /\ shell_pc' = "executing"
  /\ UNCHANGED <<safety_gate, command_r, history, running, parsed, suggestion,
                 safety_result, evaluated, lines>>
  /\ UNCHANGED <<threads, reply>>

\* _handle_rag_command: executor.execute(command, use_wsl=False)
RagRun ==
  /\ shell_pc = "rag_run"
  /\ Execute(suggestion[1], None, None, Some(FALSE))
  /\ shell_pc' = "executing"
  /\ UNCHANGED <<safety_gate, command_r, history, running, parsed, suggestion,
                 safety_result, evaluated, lines>>
  /\ UNCHANGED <<threads, reply>>

\* step 5: execute() has returned, its result is displayed, the next prompt follows
ShowResult ==
  /\ shell_pc = "executing"
  /\ pc = "idle"
  /\ outcome.kind = "returned"
  /\ shell_pc' = "prompt"
  /\ UNCHANGED <<safety_gate, command_r, history, running, parsed, suggestion,
                 safety_result, evaluated, lines>>
  /\ UNCHANGED <<engine, execution_history, probes, now, calls, pc, call, frame, child,
                 attempts, outcome, reply, threads>>

\* the shell starts
Start ==
  \E config \in ShellConfigs, env \in ShellEnvs, gate \in GateConfigs :
    ShellStart(config, env, gate)

ShellNext ==
  \/ Start
  \/ \E user_input \in InputLines : ReadLine(user_input)
  \/ ReadEOF
  \/ Builtin
  \/ \E llm \in LLMAnswers : RagSuggest(llm)
  \/ \E answer \in Choices : Confirm(answer)
  \/ Evaluate
  \/ \E metrics \in MonitorReadings, again \in MonitorReadings : RunCommand(metrics, again)
  \/ RagEvaluate
  \/ RagRun
  \/ ShowResult
  \/ PopenStart
  \/ \E msg \in PopenErrors : PopenRaise(msg)
  \/ \E c \in ShellChildren : ChildExit(c.stdout, c.stderr, c.returncode)
  \/ \E dt \in Ticks : CommunicateReturn(dt)
  \/ \E dt \in Ticks : CommunicateTimeout(dt)
  \/ \E msg \in CommunicateErrors : CommunicateRaise(msg)
  \/ \E code \in KilledExitCodes : Kill(<<>>, <<>>, code)
  \/ CommunicateKilled
  \/ Retry
  \/ Record
  \/ Except

SpecShell == Init /\ [][ShellNext]_vars

(***************************************************************************)
(* SafetyGate on its own: a gate in any configuration classifies commands  *)
(***************************************************************************)

\* the gates a configuration can build
ClassifierGates ==
  [ enabled : BOOLEAN,
    sandbox_mode : BOOLEAN,
    dangerous_commands : { <<>>, << <<"S","h","u","t","d","o","w","n">> >> },
    sensitive_paths : { <<>>, << <<"/","e","t","c">> >> } ]

\* the commands given to evaluate_command
ClassifierCommands ==
  { <<>>, <<" "," "," ">>, <<"l","s"," ","-","l","a">>,
    <<"r","m"," ","-","r","f"," ","/">>, <<"R","M"," ","-","R","F"," ","/">>,
    <<"r","m"," ","-","r","f"," ","b","u","i","l","d">>, <<"R","M"," ","-","R","F"," ","b","u","i","l","d">>,
    <<"r","m"," ","n","o","t","e","s",".","t","x","t">>, <<"r","m"," ","*",".","l","o","g">>,
    <<"c","h","m","o","d"," ","7","5","5"," ","r","u","n",".","s","h">>, <<"C","H","M","O","D"," ","7","5","5"," ","r","u","n",".","s","h">>,
    <<"c","h","m","o","d"," ","-","R"," ","7","7","7"," ",".">>,
    <<"k","i","l","l"," ","1">>, <<"k","i","l","l"," ","4","3","2","1">>,
    <<"f","o","r","m","a","t"," ","c",":">>, <<"F","O","R","M","A","T"," ","C",":">>,
    <<"d","d"," ","i","f","=","/","d","e","v","/","z","e","r","o"," ","o","f","=","/","e","t","c","/","p","a","s","s","w","d">>,
    <<"c","a","t"," ","/","e","t","c","/","p","a","s","s","w","d">>, <<"C","A","T"," ","/","E","T","C","/","P","A","S","S","W","D">>,
    <<"s","h","u","t","d","o","w","n"," ","n","o","w">>,
    <<"s","h","u","t","d","o","w","n",";"," ","c","a","t"," ","/","e","t","c","/","p","a","s","s","w","d">>,
    <<":","(",")","{"," ",":","|",":","&"," ","}",";",":">>,
    <<"c","h","m","o","d"," ","-","R"," ","7","7","7"," ","/","e","t","c">>, <<"r","m"," ","f","i","l","e",".","t","x","t">>,
    <<"r","m"," ","-","r","f"," ","f","o","o">>, <<"r","m"," ","-","r","f"," ","s","u","b","/","d","i","r">>, <<"r","m"," ","-","r","f"," ","/","t","m","p","/","x">>,
    <<"k","i","l","l"," ","1","2","3","4">>, <<"k","i","l","l"," ","-","9"," ","1">>, <<"k","i","l","l"," ","-","9"," ","4","3","2","1">> }

\* a gate exists and nothing else does
InitGate ==
  /\ safety_gate \in ClassifierGates
  /\ constructed = FALSE
  /\ timeout = 0
  /\ use_wsl = FALSE
  /\ wsl_available = FALSE
  /\ execution_history = <<>>
  /\ probes = 0
  /\ now = 0
  /\ calls = 0
  /\ pc = "idle"
  /\ call = NoCall
  /\ frame = NoFrame
  /\ child = NoChild
  /\ attempts = <<>>
  /\ outcome = NoOutcome
  /\ reply = NoReply
  /\ threads = [t \in Threads |-> NoThread]
  /\ command_r = [enabled |-> TRUE]
  /\ history = [commands |-> <<>>, max_history |-> DefaultMaxHistory]
  /\ running = FALSE
  /\ shell_pc = "off"
  /\ parsed = NoParsed
  /\ suggestion = None
  /\ safety_result = NoVerdict
  /\ evaluated = None
  /\ lines = 0

\* a gate that adds each command it blocks to its dangerous_commands
ClassifyLearns(command) ==
  /\ shell_pc = "off"
  /\ safety_result' = evaluate_command(safety_gate, command)
  /\ evaluated' = Some(command)
  /\ safety_gate' =
       IF evaluate_command(safety_gate, command).allowed
       THEN safety_gate
       ELSE [safety_gate EXCEPT !.dangerous_commands = << first_word(command) >>]
  /\ UNCHANGED <<command_r, history, running, shell_pc, parsed, suggestion, lines>>
  /\ UNCHANGED <<engine, execution_history, probes, now, calls, pc, call, frame, child,
                 attempts, outcome, reply, threads>>

\* a caller asks the gate for its verdict on a command
Classify(command) ==
  /\ shell_pc = "off"
  /\ safety_result' = evaluate_command(safety_gate, command)
  /\ evaluated' = Some(command)
  /\ UNCHANGED <<safety_gate, command_r, history, running, shell_pc, parsed, suggestion, lines>>
  /\ UNCHANGED <<engine, execution_history, probes, now, calls, pc, call, frame, child,
                 attempts, outcome, reply, threads>>

GateNext == \E command \in ClassifierCommands : Classify(command)

SpecGate == InitGate /\ [][GateNext]_vars

(***************************************************************************)
(* CommandExecutor: the calls that read, preview and history               *)
(***************************************************************************)

\* top-level execute() calls of one session of the log
MaxLogCalls == 2

\* descriptions of preview_command
descriptions ==
  { << <<"l","s">>, <<"L","i","s","t","s"," ","f","i","l","e","s"," ","a","n","d"," ","f","o","l","d","e","r","s"," ","i","n"," ","c","u","r","r","e","n","t"," ","d","i","r","e","c","t","o","r","y">> >>,
    << <<"p","w","d">>, <<"S","h","o","w","s"," ","c","u","r","r","e","n","t"," ","d","i","r","e","c","t","o","r","y"," ","p","a","t","h">> >>,
    << <<"c","a","t">>, <<"D","i","s","p","l","a","y","s"," ","c","o","n","t","e","n","t","s"," ","o","f"," ","a"," ","f","i","l","e">> >>,
    << <<"h","e","a","d">>, <<"S","h","o","w","s"," ","f","i","r","s","t"," ","1","0"," ","l","i","n","e","s"," ","o","f"," ","a"," ","f","i","l","e">> >>,
    << <<"t","a","i","l">>, <<"S","h","o","w","s"," ","l","a","s","t"," ","1","0"," ","l","i","n","e","s"," ","o","f"," ","a"," ","f","i","l","e">> >>,
    << <<"t","o","u","c","h">>, <<"C","r","e","a","t","e","s"," ","a"," ","n","e","w"," ","e","m","p","t","y"," ","f","i","l","e">> >>,
    << <<"m","k","d","i","r">>, <<"C","r","e","a","t","e","s"," ","a"," ","n","e","w"," ","d","i","r","e","c","t","o","r","y","/","f","o","l","d","e","r">> >>,
    << <<"r","m">>, <<"D","e","l","e","t","e","s"," ","a"," ","f","i","l","e"," ","o","r"," ","d","i","r","e","c","t","o","r","y">> >>,
    << <<"c","p">>, <<"C","o","p","i","e","s"," ","a"," ","f","i","l","e">> >>,
    << <<"m","v">>, <<"M","o","v","e","s"," ","o","r"," ","r","e","n","a","m","e","s"," ","a"," ","f","i","l","e">> >>,
    << <<"e","c","h","o">>, <<"P","r","i","n","t","s"," ","t","e","x","t"," ","t","o"," ","t","h","e"," ","s","c","r","e","e","n">> >>,
    << <<"c","l","e","a","r">>, <<"C","l","e","a","r","s"," ","t","h","e"," ","s","c","r","e","e","n">> >>,
    << <<"p","s">>, <<"S","h","o","w","s"," ","r","u","n","n","i","n","g"," ","p","r","o","c","e","s","s","e","s","/","p","r","o","g","r","a","m","s">> >>,
    << <<"k","i","l","l">>, <<"S","t","o","p","s"," ","a"," ","r","u","n","n","i","n","g"," ","p","r","o","c","e","s","s">> >>,
    << <<"g","r","e","p">>, <<"S","e","a","r","c","h","e","s"," ","f","o","r"," ","t","e","x","t"," ","i","n"," ","f","i","l","e","s">> >>,
    << <<"f","i","n","d">>, <<"F","i","n","d","s"," ","f","i","l","e","s"," ","a","n","d"," ","d","i","r","e","c","t","o","r","i","e","s">> >>,
    << <<"d","f">>, <<"S","h","o","w","s"," ","d","i","s","k"," ","s","p","a","c","e"," ","u","s","a","g","e">> >>,
    << <<"w","h","o","a","m","i">>, <<"S","h","o","w","s"," ","y","o","u","r"," ","u","s","e","r","n","a","m","e">> >>,
    << <<"h","o","s","t","n","a","m","e">>, <<"S","h","o","w","s"," ","c","o","m","p","u","t","e","r"," ","n","a","m","e">> >>,
    << <<"d","a","t","e">>, <<"S","h","o","w","s"," ","c","u","r","r","e","n","t"," ","d","a","t","e"," ","a","n","d"," ","t","i","m","e">> >>,
    << <<"w","c">>, <<"C","o","u","n","t","s"," ","l","i","n","e","s",","," ","w","o","r","d","s",","," ","a","n","d"," ","c","h","a","r","a","c","t","e","r","s"," ","i","n"," ","a"," ","f","i","l","e">> >> }

\* preview_command(command)
preview_command(command) ==
  LET parts == Split(Strip(command)) IN
  IF parts = <<>>
  THEN [command |-> command, description |-> <<"E","m","p","t","y"," ","c","o","m","m","a","n","d">>, safe |-> FALSE]
  ELSE [command |-> command,
        description |-> IF \E d \in descriptions : d[1] = parts[1]
                        THEN (CHOOSE d \in descriptions : d[1] = parts[1])[2]
                        ELSE <<"R","u","n","s"," ","t","h","e"," ","c","o","m","m","a","n","d",":"," ">> \o parts[1],
        safe |-> TRUE]

\* self.execution_history[-count:]
get_recent_executions(count) ==
  LET n == Len(execution_history) IN
  IF count > 0
  THEN SubSeq(execution_history, IF count >= n THEN 1 ELSE n - count + 1, n)
  ELSE SubSeq(execution_history, 1 - count, n)

\* a caller previews a command between two execute() calls
Preview(command) ==
  /\ constructed
  /\ pc = "idle"
  /\ reply' = [kind |-> "preview", value |-> preview_command(command)]
  /\ UNCHANGED <<threads, shell, engine, execution_history, probes, now, calls, pc, call, frame, child,
                 attempts, outcome>>

\* a read of the history that takes the entries it returns out of it
GetRecentPops(count) ==
  /\ constructed
  /\ pc = "idle"
  /\ reply' = [kind |-> "recent", value |-> get_recent_executions(count)]
  /\ execution_history' =
       SubSeq(execution_history, 1,
              Len(execution_history) - Len(get_recent_executions(count)))
  /\ UNCHANGED <<threads, shell, engine, probes, now, calls, pc, call, frame, child, attempts, outcome>>

\* a caller reads the most recent entries between two execute() calls
GetRecent(count) ==
  /\ constructed
  /\ pc = "idle"
  /\ reply' = [kind |-> "recent", value |-> get_recent_executions(count)]
  /\ UNCHANGED <<threads, shell, engine, execution_history, probes, now, calls, pc, call, frame, child,
                 attempts, outcome>>

\* the engine of the session and the calls made on it
LogConfigs == { [timeout |-> None, use_wsl |-> Some(TRUE)] }
LogEnvs == { env \in ProbeEnvs : env.which /\ ~env.raised /\ env.returncode = 0 }
LogCommands == { <<"l","s"," ","-","l","a">>, <<"g","i","t"," ","s","t","a","t","u","s">> }
PreviewCommands == { <<"l","s"," ","-","l","a">>, <<"g","i","t"," ","s","t","a","t","u","s">>, <<" "," ">> }
RecentCounts == { 0, 1, 10 }

LogNew ==
  /\ \E config \in LogConfigs, env \in LogEnvs : Construct(config, env)
  /\ UNCHANGED <<threads, reply, shell>>

LogCall ==
  /\ calls < MaxLogCalls
  /\ \E command \in LogCommands : Execute(command, None, None, None)
  /\ UNCHANGED <<threads, reply, shell>>

LogNext ==
  \/ LogNew
  \/ LogCall
  \/ \E command \in PreviewCommands : Preview(command)
  \/ \E count \in RecentCounts : GetRecent(count)
  \/ PopenStart
  \/ \E msg \in PopenErrors : PopenRaise(msg)
  \/ \E c \in ShellChildren : ChildExit(c.stdout, c.stderr, c.returncode)
  \/ \E dt \in Ticks : CommunicateReturn(dt)
  \/ \E dt \in Ticks : CommunicateTimeout(dt)
  \/ \E msg \in CommunicateErrors : CommunicateRaise(msg)
  \/ \E code \in KilledExitCodes : Kill(<<>>, <<>>, code)
  \/ CommunicateKilled
  \/ Retry
  \/ Record
  \/ Except

SpecLog == Init /\ [][LogNext]_vars
(***************************************************************************)
(* CommandExecutor._translate_to_windows on its own                        *)
(***************************************************************************)

\* the leading tokens, argument lists and surrounding white space of the commands
\* given to _translate_to_windows
TranslateTokens == translated_commands \cup { <<"g","i","t">>, <<"L","S">>, <<"G","e","t","-","C","h","i","l","d","I","t","e","m">> }
TranslateArgs ==
  { <<>>, << <<"a",".","t","x","t">> >>, << <<"a",".","t","x","t">>, <<"b",".","t","x","t">> >>, << <<"-","n">>, <<"a",".","t","x","t">>, <<"b",".","t","x","t">> >> }
TranslatePadding == { <<>>, <<" "," ">> }

\* the commands given to _translate_to_windows
TranslateCommands ==
  { pad \o Join(<<token>> \o args) \o pad :
      token \in TranslateTokens, args \in TranslateArgs, pad \in TranslatePadding }
  \cup { <<>>, <<" "," "," ">> }

\* a caller asks the engine for the PowerShell form of a command
Translate(command) ==
  /\ constructed
  /\ pc = "idle"
  /\ reply' = [kind |-> "translate",
               value |-> [command |-> command, translated |-> translate_to_windows(command)]]
  /\ UNCHANGED <<threads, shell, engine, execution_history, probes, now, calls, pc, call, frame, child,
                 attempts, outcome>>

TranslateNew ==
  /\ \E config \in LogConfigs, env \in LogEnvs : Construct(config, env)
  /\ UNCHANGED <<threads, reply, shell>>

TranslateNext ==
  \/ TranslateNew
  \/ \E command \in TranslateCommands : Translate(command)

SpecTranslate == Init /\ [][TranslateNext]_vars

(***************************************************************************)
(* SafetyGate.simulate_command and CommandExecutor.preview_command          *)
(***************************************************************************)

\* descriptions of _describe_command
command_descriptions ==
  { << <<"r","m">>, <<"R","e","m","o","v","e","s","/","d","e","l","e","t","e","s"," ","f","i","l","e","s"," ","o","r"," ","d","i","r","e","c","t","o","r","i","e","s">> >>,
    << <<"d","e","l">>, <<"D","e","l","e","t","e","s"," ","f","i","l","e","s">> >>,
    << <<"k","i","l","l">>, <<"T","e","r","m","i","n","a","t","e","s"," ","a"," ","r","u","n","n","i","n","g"," ","p","r","o","c","e","s","s">> >>,
    << <<"c","h","m","o","d">>, <<"C","h","a","n","g","e","s"," ","f","i","l","e"," ","p","e","r","m","i","s","s","i","o","n","s">> >>,
    << <<"c","h","o","w","n">>, <<"C","h","a","n","g","e","s"," ","f","i","l","e"," ","o","w","n","e","r">> >>,
    << <<"m","k","f","s">>, <<"C","r","e","a","t","e","s"," ","a"," ","n","e","w"," ","f","i","l","e","s","y","s","t","e","m"," ","(","f","o","r","m","a","t","s"," ","a"," ","d","r","i","v","e",")">> >>,
    << <<"d","d">>, <<"C","o","p","i","e","s"," ","d","a","t","a"," ","a","t"," ","a"," ","l","o","w"," ","l","e","v","e","l">> >>,
    << <<"f","o","r","m","a","t">>, <<"F","o","r","m","a","t","s"," ","a"," ","h","a","r","d"," ","d","r","i","v","e">> >>,
    << <<"m","k","d","i","r">>, <<"C","r","e","a","t","e","s"," ","a"," ","n","e","w"," ","d","i","r","e","c","t","o","r","y">> >>,
    << <<"c","p">>, <<"C","o","p","i","e","s"," ","f","i","l","e","s"," ","o","r"," ","d","i","r","e","c","t","o","r","i","e","s">> >>,
    << <<"m","v">>, <<"M","o","v","e","s"," ","o","r"," ","r","e","n","a","m","e","s"," ","f","i","l","e","s">> >>,
    << <<"c","a","t">>, <<"D","i","s","p","l","a","y","s"," ","f","i","l","e"," ","c","o","n","t","e","n","t","s">> >>,
    << <<"l","s">>, <<"L","i","s","t","s"," ","f","i","l","e","s"," ","a","n","d"," ","d","i","r","e","c","t","o","r","i","e","s">> >> }

\* _describe_command(cmd)
describe_command(cmd) ==
  IF \E d \in command_descriptions : d[1] = Lower(cmd)
  THEN (CHOOSE d \in command_descriptions : d[1] = Lower(cmd))[2]
  ELSE <<"E","x","e","c","u","t","e","s"," ","t","h","e"," ","'">> \o cmd \o <<"'"," ","c","o","m","m","a","n","d">>

\* a simulation that reports the reason of every verdict that has one
simulate_command_reports_reason(g, command) ==
  LET evaluation == evaluate_command(g, command)
      parts == Split(command)
      cmd == IF parts # <<>> THEN parts[1] ELSE <<>>
  IN  [command |-> command,
       would_execute |-> evaluation.allowed,
       risk_level |-> evaluation.risk_level,
       blocked_reason |-> IF evaluation.reason # <<>> THEN Some(evaluation.reason) ELSE None,
       warnings |-> evaluation.warnings,
       description |-> describe_command(cmd)]

\* simulate_command(command) on a gate with the fields of g; blocked_reason is
\* Some(reason) or None
simulate_command(g, command) ==
  LET evaluation == evaluate_command(g, command)
      parts == Split(command)
      cmd == IF parts # <<>> THEN parts[1] ELSE <<>>
  IN  [command |-> command,
       would_execute |-> evaluation.allowed,
       risk_level |-> evaluation.risk_level,
       blocked_reason |-> IF ~evaluation.allowed THEN Some(evaluation.reason) ELSE None,
       warnings |-> evaluation.warnings,
       description |-> describe_command(cmd)]

\* the commands simulated and previewed
DescribedCommands ==
  { <<>>, <<"l","s"," ","-","l","a">>, <<"L","S"," ","-","l","a">>, <<"c","a","t"," ","n","o","t","e","s",".","t","x","t">>, <<"r","m"," ","-","r","f"," ","/">>, <<"r","m"," ","*",".","l","o","g">>,
    <<"r","m"," ","n","o","t","e","s",".","t","x","t">>, <<"g","i","t"," ","s","t","a","t","u","s">> }

\* the session builds its engine and its gate
SimNew ==
  /\ \E config \in LogConfigs, env \in LogEnvs : Construct(config, env)
  /\ \E gate \in GateConfigs : safety_gate' = SafetyGate(gate)
  /\ UNCHANGED <<command_r, history, running, shell_pc, parsed, suggestion, safety_result,
                 evaluated, lines>>
  /\ UNCHANGED <<threads, reply>>

SimCall ==
  /\ calls < MaxCalls
  /\ \E command \in LogCommands : Execute(command, None, None, None)
  /\ UNCHANGED <<threads, reply, shell>>

\* a caller asks the gate to simulate a command between two execute() calls
Simulate(command) ==
  /\ constructed
  /\ pc = "idle"
  /\ reply' = [kind |-> "simulate", value |-> simulate_command(safety_gate, command)]
  /\ UNCHANGED <<threads, shell, engine, execution_history, probes, now, calls, pc, call, frame, child,
                 attempts, outcome>>

SimNext ==
  \/ SimNew
  \/ SimCall
  \/ \E command \in DescribedCommands : Simulate(command)
  \/ \E command \in DescribedCommands : Preview(command)
  \/ PopenStart
  \/ \E msg \in PopenErrors : PopenRaise(msg)
  \/ \E c \in ShellChildren : ChildExit(c.stdout, c.stderr, c.returncode)
  \/ \E dt \in Ticks : CommunicateReturn(dt)
  \/ \E dt \in Ticks : CommunicateTimeout(dt)
  \/ \E msg \in CommunicateErrors : CommunicateRaise(msg)
  \/ \E code \in KilledExitCodes : Kill(<<>>, <<>>, code)
  \/ CommunicateKilled
  \/ Retry
  \/ Record
  \/ Except

SpecSimulate == Init /\ [][SimNext]_vars

(***************************************************************************)
(* execute() called from several threads on one engine                     *)
(***************************************************************************)

\* what makes a thread's execute() raise
ThreadErrors == { <<"[","W","i","n","E","r","r","o","r"," ","2","]"," ","T","h","e"," ","s","y","s","t","e","m"," ","c","a","n","n","o","t"," ","f","i","n","d"," ","t","h","e"," ","f","i","l","e"," ","s","p","e","c","i","f","i","e","d">> }

ThreadsNew ==
  /\ \E config \in LogConfigs, env \in LogEnvs : Construct(config, env)
  /\ UNCHANGED <<threads, reply, shell>>

\* lines 42-60: thread t enters execute(command); history_len is the length of the
\* log at that moment
ThreadCall(t, command) ==
  /\ constructed
  /\ threads[t].pc = "idle"
  /\ threads' = [threads EXCEPT ![t] =
       [pc |-> "running", command |-> command, start_time |-> now,
        history_len |-> Len(execution_history), recorded |-> FALSE, result |-> NoOutcome]]
  /\ UNCHANGED <<reply, shell, engine, execution_history, probes, now, calls, pc, call, frame,
                 child, attempts, outcome>>

\* lines 62-121: the child of thread t has run and its result dictionary is built,
\* all of it in locals of the thread
ThreadRun(t, stdout, stderr, returncode) ==
  /\ threads[t].pc = "running"
  /\ threads' = [threads EXCEPT ![t].pc = "append",
                                ![t].result = Result(threads[t].command, stdout, stderr,
                                                     returncode, threads[t].start_time, now)]
  /\ UNCHANGED <<reply, shell, engine, execution_history, probes, now, calls, pc, call, frame,
                 child, attempts, outcome>>

\* an append that writes back the list the thread saw when it entered execute()
ThreadAppendStale(t) ==
  /\ threads[t].pc = "append"
  /\ execution_history' =
       Append(SubSeq(execution_history, 1, threads[t].history_len), threads[t].result)
  /\ threads' = [threads EXCEPT ![t].pc = "returned", ![t].recorded = TRUE]
  /\ UNCHANGED <<reply, shell, engine, probes, now, calls, pc, call, frame, child, attempts,
                 outcome>>

\* lines 129-132: self.execution_history.append(result), one call of list.append,
\* then return result
ThreadAppend(t) ==
  /\ threads[t].pc = "append"
  /\ execution_history' = Append(execution_history, threads[t].result)
  /\ threads' = [threads EXCEPT ![t].pc = "returned", ![t].recorded = TRUE]
  /\ UNCHANGED <<reply, shell, engine, probes, now, calls, pc, call, frame, child, attempts,
                 outcome>>

\* lines 134-150: the call of thread t raised and returns the error result without
\* touching the log
ThreadExcept(t, msg) ==
  /\ threads[t].pc = "running"
  /\ threads' = [threads EXCEPT ![t].pc = "returned",
                                ![t].result = Result(threads[t].command, <<>>, msg, -1,
                                                     threads[t].start_time, now)]
  /\ UNCHANGED <<reply, shell, engine, execution_history, probes, now, calls, pc, call, frame,
                 child, attempts, outcome>>

ThreadsNext ==
  \/ ThreadsNew
  \/ \E t \in Threads, command \in LogCommands : ThreadCall(t, command)
  \/ \E t \in Threads, c \in ShellChildren : ThreadRun(t, c.stdout, c.stderr, c.returncode)
  \/ \E t \in Threads : ThreadAppend(t)
  \/ \E t \in Threads, msg \in ThreadErrors : ThreadExcept(t, msg)

SpecThreads == Init /\ [][ThreadsNext]_vars

(***************************************************************************)
(* CommandExecutor._detect_wsl on its own                                  *)
(***************************************************************************)

\* what subprocess.run of the probe can raise: nothing, the launch failing, or the
\* 5 seconds running out
ProbeExceptions == { "none", "OSError", "TimeoutExpired" }

\* the hosts the probe runs on: whether shutil.which finds wsl, what the probe
\* raises, and the exit code and stderr of a probe that completes
ProbeHosts ==
  { [which |-> w, raised |-> (e # "none"), exception |-> e, returncode |-> code, stderr |-> err] :
      w \in BOOLEAN, e \in ProbeExceptions, code \in {0, 1, 255},
      err \in { <<>>, <<"W","S","L"," ","i","s"," ","n","o","t"," ","e","n","a","b","l","e","d">>, <<"b","a","s","h",":"," ","n","o","t"," ","f","o","u","n","d">>, <<"w","s","l",":"," ","B","a","s","h",":"," ","N","o","t"," ","F","o","u","n","d">>,
                <<"N","o"," ","i","n","s","t","a","l","l","e","d"," ","d","i","s","t","r","i","b","u","t","i","o","n","s">>, <<"u","n","e","x","p","e","c","t","e","d">>,
                <<"T","h","e"," ","s","y","s","t","e","m"," ","c","a","n","n","o","t"," ","f","i","n","d"," ","t","h","e"," ","f","i","l","e"," ","s","p","e","c","i","f","i","e","d">> } }

\* a caller runs the probe of the engine on a host
Detect(host) ==
  /\ constructed
  /\ pc = "idle"
  /\ reply' = [kind |-> "probe", value |-> [host |-> host, available |-> detect_wsl(host)]]
  /\ UNCHANGED <<threads, shell, engine, execution_history, probes, now, calls, pc, call, frame,
                 child, attempts, outcome>>

ProbeNew ==
  /\ \E config \in LogConfigs, env \in LogEnvs : Construct(config, env)
  /\ UNCHANGED <<threads, reply, shell>>

ProbeNext ==
  \/ ProbeNew
  \/ \E host \in ProbeHosts : Detect(host)

SpecProbe == Init /\ [][ProbeNext]_vars


(***************************************************************************)
(* Properties of CommandExecutor                                           *)
(***************************************************************************)

\* the keys of a result dictionary
ResultFields ==
  {"command", "output", "error", "exit_code", "success", "duration", "start_time", "end_time"}

\* a top-level call has just returned
Returned == pc = "idle" /\ outcome.kind = "returned"

\* the wait on a child of the call ran out
Expired == \E i \in DOMAIN attempts : attempts[i].expired

\* the attempt hit a missing backend: the executable could not be launched, or the
\* child exited non-zero with one of the backend-missing signatures
BackendMissing(a) ==
  /\ a.wsl
  /\ \/ ~a.started
     \/ a.exited /\ a.returncode # 0 /\ should_fallback_to_powershell(a.stderr)

\* C1: in the shell loop and in the natural-language path, execute() is called
\* for a command only when the gate's last verdict was given on that same
\* command string and allowed it; a command the gate blocks is never passed on
C1_GateBeforeExecute ==
  [][calls' = calls + 1 =>
       /\ evaluated = Some(call'.command)
       /\ safety_result = evaluate_command(safety_gate, call'.command)
       /\ safety_result.allowed]_vars

\* a confirmed suggestion and a typed line are both in the engine's hands in
\* some session, after a blocked line went nowhere
C1_Witness ==
  /\ shell_pc = "executing"
  /\ pc = "popen"
  /\ call.use_wsl = Some(FALSE)
  /\ evaluated = Some(call.command)
  /\ lines = 2
  /\ calls = 1
  /\ ~evaluate_command(safety_gate, history.commands[1]).allowed

\* C2 (as claimed): every top-level execute() call, however it ends, makes
\* execution_history one entry longer, and that entry is the result it returns.
C2_EveryCallIsRecorded ==
  Returned =>
    /\ Len(execution_history) = call.history_len + 1
    /\ execution_history[Len(execution_history)] = outcome.result

\* C3: execute() never raises; when Popen or communicate raises it returns a result
\* with all eight fields, exit_code -1, success false, the message of the fault as
\* error and an empty output.
C3_ExecuteNeverRaises ==
  /\ outcome.kind # "raised"
  /\ (pc = "except" => ENABLED Except)
  /\ (pc = "idle" /\ calls > 0) =>
       (outcome.kind = "returned" /\ DOMAIN outcome.result = ResultFields)
  /\ (pc = "idle" /\ frame.raised) =>
       /\ outcome.kind = "returned"
       /\ outcome.result.exit_code = -1
       /\ outcome.result.success = FALSE
       /\ outcome.result.error = frame.error
       /\ outcome.result.error # <<>>
       /\ outcome.result.output = <<>>

\* C3 witness: a call whose wait on a running child raised has returned the error result.
C3_Witness ==
  /\ Returned
  /\ frame.raised
  /\ child.state = "running"
  /\ outcome.result.exit_code = -1
  /\ outcome.result.error \in CommunicateErrors

\* C4 (as claimed): when the wait on the child ran out (and nothing raised), the result
\* has success false, its error holds the timeout notice and the child has terminated,
\* in every interleaving of the child's own exit with the expiry and the kill.
C4_TimeoutIsFailure ==
  (Returned /\ Expired /\ ~frame.raised) =>
    /\ outcome.result.success = FALSE
    /\ Contains(outcome.result.error, <<"C","o","m","m","a","n","d"," ","t","i","m","e","o","u","t"," ","a","f","t","e","r"," ">>)
    /\ child.state \in {"exited", "reaped"}

\* C5: a top-level call retries at most once: at most two activations, the second on
\* PowerShell, at most two Popen calls and never two on the same backend.
C5_AtMostOneRetry ==
  /\ frame.depth <= 2
  /\ (frame.depth = 2 => ~frame.use_wsl)
  /\ Len(attempts) <= 2
  /\ \A i, j \in DOMAIN attempts : i # j => attempts[i].wsl # attempts[j].wsl
  /\ (Len(attempts) = 2 => attempts[1].wsl /\ ~attempts[2].wsl)

\* C5 witness: a call that retried has returned after two Popen calls.
C5_Witness == Returned /\ Len(attempts) = 2 /\ attempts[2].started

\* C6: the retry runs the original command of the call, with the working directory
\* and the timeout of the call, on PowerShell, and spawns the translation of the
\* original when it is a Linux command and the original itself otherwise.
C6_RetryRunsOriginal ==
  frame.depth = 2 =>
    /\ frame.original_command = call.command
    /\ frame.working_dir = call.working_dir
    /\ frame.timeout = (IF call.timeout = None \/ call.timeout[1] = 0
                        THEN timeout ELSE call.timeout[1])
    /\ ~frame.use_wsl
    /\ frame.command = (IF first_word(call.command) \in linux_commands
                        THEN translate_to_windows(call.command) ELSE call.command)
    /\ Len(attempts) = 2 =>
         /\ attempts[2].argv = << <<"p","o","w","e","r","s","h","e","l","l",".","e","x","e">>, <<"-","C","o","m","m","a","n","d">>, frame.command >>
         /\ attempts[2].cwd = call.working_dir
         /\ attempts[2].cwd = attempts[1].cwd
         /\ attempts[2].timeout = attempts[1].timeout

\* C6 witness: the retry of "ls -la" in C:\tmp with timeout 5 spawned Get-ChildItem there.
C6_Witness ==
  /\ Len(attempts) = 2
  /\ call.command = <<"l","s"," ","-","l","a">>
  /\ attempts[1].argv = << <<"w","s","l">>, <<"b","a","s","h">>, <<"-","l","c">>, <<"l","s"," ","-","l","a">> >>
  /\ attempts[2].argv = << <<"p","o","w","e","r","s","h","e","l","l",".","e","x","e">>, <<"-","C","o","m","m","a","n","d">>, <<"G","e","t","-","C","h","i","l","d","I","t","e","m">> >>
  /\ attempts[2].cwd = Some(<<"C",":","\\","t","m","p">>)
  /\ attempts[2].timeout = 5

\* C7 (as claimed): a call that targets WSL and hits a missing backend, the executable
\* not launching or the child exiting non-zero with a backend-missing signature,
\* tries PowerShell before it returns.
C7_MissingBackendFallsBack ==
  (Returned /\ attempts # <<>> /\ BackendMissing(attempts[1])) =>
    (Len(attempts) = 2 /\ ~attempts[2].wsl)

\* C8 (as claimed): an explicit per-call preference decides the backend, whatever the
\* engine default and the availability flag are.
C8_ExplicitPreferenceDecides ==
  (frame.depth = 1 /\ call.use_wsl # None) =>
    /\ frame.use_wsl = call.use_wsl[1]
    /\ attempts # <<>> => attempts[1].wsl = call.use_wsl[1]

\* C8 (amended): the call targets WSL exactly when the requested backend, the explicit
\* preference when given and self.use_wsl otherwise, is WSL and WSL is marked
\* available; an explicit PowerShell preference always targets PowerShell.
C8_BackendSelection ==
  frame.depth = 1 =>
    LET requested == IF call.use_wsl = None THEN use_wsl ELSE call.use_wsl[1]
        target == requested /\ wsl_available
    IN  /\ frame.use_wsl = target
        /\ (call.use_wsl = Some(FALSE) => ~frame.use_wsl)
        /\ attempts # <<>> =>
             attempts[1].argv[1] = (IF target THEN <<"w","s","l">> ELSE <<"p","o","w","e","r","s","h","e","l","l",".","e","x","e">>)

\* C8 witness: an explicit WSL preference on an engine without WSL ran PowerShell.
C8_Witness ==
  /\ frame.depth = 1
  /\ call.use_wsl = Some(TRUE)
  /\ ~wsl_available
  /\ attempts # <<>>
  /\ attempts[1].started
  /\ attempts[1].argv[1] = <<"p","o","w","e","r","s","h","e","l","l",".","e","x","e">>

\* C9: once WSL is marked unavailable it stays so and no probe runs again; a
\* default-routed call then spawns nothing on WSL, does not raise and returns a
\* result with the eight fields.
C9_StaysUnavailable ==
  /\ [][(constructed /\ ~wsl_available) => (~wsl_available' /\ probes' = probes)]_vars
  /\ [](constructed /\ ~wsl_available /\ call.use_wsl = None =>
          /\ \A i \in DOMAIN attempts : ~attempts[i].wsl
          /\ outcome.kind # "raised"
          /\ (pc = "idle" /\ calls > 0) =>
               (outcome.kind = "returned" /\ DOMAIN outcome.result = ResultFields))

\* C9 witness: a default-routed call on an engine without WSL has run on PowerShell
\* and returned.
C9_Witness ==
  /\ constructed
  /\ ~wsl_available
  /\ calls > 0
  /\ call.use_wsl = None
  /\ Returned
  /\ attempts # <<>>
  /\ attempts[1].started
  /\ ~attempts[1].wsl

\* C10 (as claimed): the probe is lazy: none has run before the first execute() call.
C10_ProbeIsLazy == calls = 0 => probes = 0

\* C10 (amended): the probe runs at most once per engine, inside the constructor (and
\* only when the wsl executable is found); no execute() call runs a probe.
C10_ProbeOnlyAtConstruction ==
  /\ [](probes <= 1 /\ (~constructed => probes = 0))
  /\ [][constructed => probes' = probes]_vars

\* C10 witness: after a call that ran on WSL the constructor's probe is still the only one.
C10_Witness ==
  /\ constructed
  /\ probes = 1
  /\ Returned
  /\ attempts # <<>>
  /\ attempts[1].wsl
  /\ attempts[1].started

\* the last Popen call of the current top-level call
LastAttempt == attempts[Len(attempts)]

\* C15: every result execute() returns, on the normal, the timeout, the fallback and
\* the spawn-failure path, and every entry of the history, has success equal to
\* (exit_code = 0), and a duration that is end_time - start_time and not negative
C15_SuccessAndDuration ==
  LET Sound(r) == /\ r.success = (r.exit_code = 0)
                  /\ r.duration = r.end_time - r.start_time
                  /\ r.duration >= 0
  IN  /\ Returned => Sound(outcome.result)
      /\ \A i \in DOMAIN execution_history : Sound(execution_history[i])

\* a call whose WSL child was killed on timeout with a non-zero code has returned
\* a failure with a positive duration
C15_Witness ==
  /\ Returned
  /\ Len(attempts) = 1
  /\ LastAttempt.expired
  /\ outcome.result.exit_code = 1
  /\ ~outcome.result.success
  /\ outcome.result.duration > 0

\* C16: the string handed to the child is the translation of the call's command
\* exactly when the Popen call targets PowerShell and the command is a Linux command;
\* on WSL, and for any other command, it is the command unchanged
C16_TranslatedOnlyForNative ==
  \A i \in DOMAIN attempts :
    LET a == attempts[i]
        handed == a.argv[Len(a.argv)]
    IN  /\ a.argv[1] = (IF a.wsl THEN <<"w","s","l">> ELSE <<"p","o","w","e","r","s","h","e","l","l",".","e","x","e">>)
        /\ handed = (IF ~a.wsl /\ first_word(call.command) \in linux_commands
                     THEN translate_to_windows(call.command)
                     ELSE call.command)
        /\ (a.wsl \/ first_word(call.command) \notin linux_commands) => handed = call.command

\* a single PowerShell child was handed the translation of "ls -la"
C16_Witness ==
  /\ Len(attempts) = 1
  /\ LastAttempt.started
  /\ ~LastAttempt.wsl
  /\ call.command = <<"l","s"," ","-","l","a">>
  /\ LastAttempt.argv = << <<"p","o","w","e","r","s","h","e","l","l",".","e","x","e">>, <<"-","C","o","m","m","a","n","d">>, <<"G","e","t","-","C","h","i","l","d","I","t","e","m">> >>

\* C17: the command field of every returned result and of every history entry is the
\* string the caller passed, never its translation, also after a translation and
\* after the fallback retry
C17_ResultNamesOriginal ==
  /\ Returned => outcome.result.command = call.command
  /\ (Returned /\ Len(execution_history) > call.history_len) =>
        execution_history[Len(execution_history)].command = call.command
  /\ \A i \in DOMAIN execution_history : execution_history[i].command \in Commands

\* the retry of "ls -la" spawned Get-ChildItem and the recorded result names "ls -la"
C17_Witness ==
  /\ Returned
  /\ Len(attempts) = 2
  /\ LastAttempt.exited
  /\ frame.command = <<"G","e","t","-","C","h","i","l","d","I","t","e","m">>
  /\ outcome.result.command = <<"l","s"," ","-","l","a">>
  /\ execution_history[Len(execution_history)].command = <<"l","s"," ","-","l","a">>

C19_TimeoutKeepsOutput ==
  (Returned /\ ~frame.raised) =>
    \A i \in DOMAIN attempts :
      attempts[i].expired =>
        /\ outcome.result.output = attempts[i].stdout
        /\ Contains(outcome.result.error, attempts[i].stderr)

\* C20: the history is append-only: every step leaves the earlier log as a prefix
\* of the log, only the step of execute() that records a result makes it longer, by
\* that one result at its end, and preview_command and get_recent_executions leave
\* it as it is
C20_AppendOnly ==
  [][/\ Len(execution_history') >= Len(execution_history)
     /\ SubSeq(execution_history', 1, Len(execution_history)) = execution_history
     /\ execution_history' # execution_history =>
          /\ pc = "check"
          /\ pc' = "idle"
          /\ outcome'.kind = "returned"
          /\ execution_history' = Append(execution_history, outcome'.result)
     /\ reply' # reply => execution_history' = execution_history]_vars

\* after two recorded calls, a read of the last entry returned the second result
\* and the log still holds both, in the order they completed
C20_Witness ==
  /\ Len(execution_history) = 2
  /\ reply.kind = "recent"
  /\ reply.value = << execution_history[2] >>
  /\ execution_history[2] = outcome.result
  /\ execution_history[1].end_time <= execution_history[2].start_time

(***************************************************************************)
(* Properties of SafetyGate.evaluate_command                               *)
(***************************************************************************)

C12_HighestTierWins ==
  (evaluated # None /\ safety_gate.enabled) =>
    LET c == evaluated[1]
        critical == is_critical_command(safety_gate.dangerous_commands, c).hit
        high == is_high_risk_command(c).hit
        medium == is_medium_risk_command(safety_gate.sensitive_paths, c).hit
        confirm == needs_confirmation(c).hit
    IN  /\ critical => (safety_result.risk_level = CRITICAL /\ ~safety_result.allowed)
        /\ (~critical /\ high) => safety_result.risk_level = HIGH
        /\ (~critical /\ ~high /\ medium) => safety_result.risk_level = MEDIUM
        /\ (~critical /\ ~high /\ ~medium /\ confirm) => safety_result.risk_level = LOW
        /\ (~critical /\ ~high /\ ~medium /\ ~confirm) => safety_result.risk_level = SAFE

\* a command holding a configured dangerous substring and a configured sensitive
\* path has been classified CRITICAL
C12_Witness ==
  /\ evaluated = Some(<<"s","h","u","t","d","o","w","n",";"," ","c","a","t"," ","/","e","t","c","/","p","a","s","s","w","d">>)
  /\ safety_gate.enabled
  /\ safety_gate.dangerous_commands = << <<"S","h","u","t","d","o","w","n">> >>
  /\ safety_gate.sensitive_paths = << <<"/","e","t","c">> >>
  /\ is_medium_risk_command(safety_gate.sensitive_paths, evaluated[1]).hit
  /\ safety_result.risk_level = CRITICAL
  /\ safety_result.reason = <<"M","a","t","c","h","e","s"," ","d","a","n","g","e","r","o","u","s"," ","p","a","t","t","e","r","n",":"," ","S","h","u","t","d","o","w","n">>

C14_CaseInsensitive ==
  evaluated # None =>
    \A c \in ClassifierCommands :
      Lower(c) = Lower(evaluated[1]) =>
        /\ evaluate_command(safety_gate, c).risk_level = safety_result.risk_level
        /\ evaluate_command(safety_gate, c).allowed = safety_result.allowed

\* C22 (as claimed): for every command and every configuration, enabled or
\* disabled, an allowed verdict has the empty reason
C22_ReasonOnlyWhenBlocked ==
  evaluated # None => (safety_result.allowed => safety_result.reason = <<>>)

\* C22: an allowed verdict of an enabled gate has the empty reason, a blocked
\* verdict has a non-empty one, and the verdict of a disabled gate, which is
\* allowed, has the reason 'Safety gate disabled'
C22_ReasonOfEnabledGate ==
  evaluated # None =>
    /\ (safety_gate.enabled /\ safety_result.allowed) => safety_result.reason = <<>>
    /\ ~safety_result.allowed => safety_result.reason # <<>>
    /\ ~safety_gate.enabled =>
         (safety_result.allowed /\ safety_result.reason = <<"S","a","f","e","t","y"," ","g","a","t","e"," ","d","i","s","a","b","l","e","d">>)

\* an enabled gate has allowed a wildcard delete with a warning and no reason
C22_Witness ==
  /\ evaluated = Some(<<"r","m"," ","*",".","l","o","g">>)
  /\ safety_gate.enabled
  /\ safety_result.allowed
  /\ safety_result.warnings # <<>>
  /\ safety_result.reason = <<>>

\* C23: an evaluation leaves enabled, sandbox_mode, dangerous_commands and
\* sensitive_paths of the gate as they were, the verdict it returns is the value
\* of evaluate_command at (configuration, command) whatever was evaluated before,
\* so evaluating the command of the previous evaluation again returns the
\* previous verdict, and the verdict any command would get never changes
C23_Pure ==
  [][ /\ safety_gate' = safety_gate
      /\ evaluated' # None =>
           safety_result' = evaluate_command(safety_gate, evaluated'[1])
      /\ evaluated' = evaluated => safety_result' = safety_result
      /\ \A c \in ClassifierCommands :
           evaluate_command(safety_gate', c) = evaluate_command(safety_gate, c) ]_vars

\* a gate configured with both lists has blocked a command on its configured
\* pattern, and the lists are still the configured ones
C23_Witness ==
  /\ evaluated = Some(<<"s","h","u","t","d","o","w","n"," ","n","o","w">>)
  /\ safety_gate.enabled
  /\ safety_gate.dangerous_commands = << <<"S","h","u","t","d","o","w","n">> >>
  /\ safety_gate.sensitive_paths = << <<"/","e","t","c">> >>
  /\ safety_result.reason = <<"M","a","t","c","h","e","s"," ","d","a","n","g","e","r","o","u","s"," ","p","a","t","t","e","r","n",":"," ","S","h","u","t","d","o","w","n">>
  /\ ~safety_result.allowed

\* the configuration a SafetyGate built without settings has
DefaultGate ==
  [enabled |-> TRUE, sandbox_mode |-> FALSE, dangerous_commands |-> <<>>,
   sensitive_paths |-> <<>>]

\* C26: the gate with the default configuration classifies 'rm -rf /' and the fork
\* bomb ':(){ :|:& };:' CRITICAL and blocks them, 'chmod -R 777 /etc' HIGH and
\* blocks it, 'rm *.log' MEDIUM, allowed, with the wildcard-delete warning, and
\* 'rm file.txt' LOW, allowed, with the confirmation warning
C26_PinnedVerdicts ==
  (evaluated # None /\ safety_gate = DefaultGate) =>
    /\ evaluated[1] \in { <<"r","m"," ","-","r","f"," ","/">>, <<":","(",")","{"," ",":","|",":","&"," ","}",";",":">> } =>
         (safety_result.risk_level = CRITICAL /\ ~safety_result.allowed)
    /\ evaluated[1] = <<"c","h","m","o","d"," ","-","R"," ","7","7","7"," ","/","e","t","c">> =>
         (safety_result.risk_level = HIGH /\ ~safety_result.allowed)
    /\ evaluated[1] = <<"r","m"," ","*",".","l","o","g">> =>
         /\ safety_result.risk_level = MEDIUM
         /\ safety_result.allowed
         /\ safety_result.warnings = << <<"D","e","l","e","t","i","n","g"," ","m","u","l","t","i","p","l","e"," ","f","i","l","e","s"," ","w","i","t","h"," ","w","i","l","d","c","a","r","d">> >>
    /\ evaluated[1] = <<"r","m"," ","f","i","l","e",".","t","x","t">> =>
         /\ safety_result.risk_level = LOW
         /\ safety_result.allowed
         /\ safety_result.warnings = << <<"'","r","m","'"," ","c","o","m","m","a","n","d"," ","r","e","q","u","i","r","e","s"," ","c","o","n","f","i","r","m","a","t","i","o","n">> >>

\* the default gate has blocked the fork bomb
C26_Witness ==
  /\ evaluated = Some(<<":","(",")","{"," ",":","|",":","&"," ","}",";",":">>)
  /\ safety_gate = DefaultGate
  /\ safety_result.risk_level = CRITICAL
  /\ safety_result.reason = <<"F","o","r","k"," ","b","o","m","b"," ","d","e","t","e","c","t","e","d"," ","-"," ","w","o","u","l","d"," ","c","r","a","s","h"," ","s","y","s","t","e","m">>

\* C27: an enabled gate gives the reason 'Recursive delete detected' only to a
\* command without '/', 'rm -rf foo' is HIGH and blocked, and 'rm -rf sub/dir',
\* which matches no CRITICAL rule, is LOW and allowed with the confirmation warning
C27_RecursiveDeleteNeedsNoSeparator ==
  (evaluated # None /\ safety_gate.enabled) =>
    /\ safety_result.reason = <<"R","e","c","u","r","s","i","v","e"," ","d","e","l","e","t","e"," ","d","e","t","e","c","t","e","d">> =>
         (~Contains(evaluated[1], <<"/">>) /\ safety_result.risk_level = HIGH)
    /\ evaluated[1] = <<"r","m"," ","-","r","f"," ","f","o","o">> =>
         /\ safety_result.risk_level = HIGH
         /\ ~safety_result.allowed
         /\ safety_result.reason = <<"R","e","c","u","r","s","i","v","e"," ","d","e","l","e","t","e"," ","d","e","t","e","c","t","e","d">>
    /\ evaluated[1] = <<"r","m"," ","-","r","f"," ","s","u","b","/","d","i","r">> =>
         /\ safety_result.risk_level = LOW
         /\ safety_result.allowed
         /\ safety_result.warnings = << <<"'","r","m","'"," ","c","o","m","m","a","n","d"," ","r","e","q","u","i","r","e","s"," ","c","o","n","f","i","r","m","a","t","i","o","n">> >>

\* a recursive delete of a path with a separator has been allowed
C27_Witness ==
  /\ evaluated = Some(<<"r","m"," ","-","r","f"," ","s","u","b","/","d","i","r">>)
  /\ safety_gate.enabled
  /\ Contains(evaluated[1], <<"r","m"," ","-","r","f">>)
  /\ safety_result.allowed
  /\ safety_result.risk_level = LOW

\* C28 (as claimed): an enabled gate gives a kill command HIGH only when its
\* target is pid 1, a kill of any other pid is LOW and allowed
C28_KillOnlyInit ==
  (/\ evaluated # None
   /\ safety_gate = DefaultGate
   /\ first_word(evaluated[1]) = <<"k","i","l","l">>
   /\ Split(Strip(evaluated[1]))[Len(Split(Strip(evaluated[1])))] # <<"1">>) =>
    (safety_result.risk_level = LOW /\ safety_result.allowed)

(***************************************************************************)
(* Properties of CommandExecutor._translate_to_windows                     *)
(***************************************************************************)

\* the command of the last translation, its translation, and its arguments
Translated == reply.kind = "translate"
TranslatedArgs == Tail(Split(Strip(reply.value.command)))

\* a PowerShell command that prints the usage message of cmd
IsUsageMessage(text, cmd) == StartsWith(text, <<"W","r","i","t","e","-","H","o","s","t"," ","\"">> \o cmd \o <<":"," ">>)

\* C24: for every command whose leading token has no rule, the empty command and
\* the command of white space included, the translation is the command itself,
\* character for character, and every command has a translation
C24_IdentityOnUnmapped ==
  Translated =>
    /\ first_word(reply.value.command) \notin translated_commands =>
         reply.value.translated = reply.value.command
    /\ reply.value.translated \in Seq(STRING)

\* a command without a rule, with white space around it, came back as it was
C24_Witness ==
  /\ Translated
  /\ reply.value.command = <<" "," ","g","i","t"," ","a",".","t","x","t"," ","b",".","t","x","t"," "," ">>
  /\ reply.value.translated = <<" "," ","g","i","t"," ","a",".","t","x","t"," ","b",".","t","x","t"," "," ">>

\* C25: cat, head, tail, touch, mkdir, rm, kill, grep and wc without an argument,
\* and cp and mv with fewer than two, translate to a command that prints the usage
\* message of the rule; cp and mv with two arguments or more translate to
\* Copy-Item and Move-Item of the first two arguments, each in its own quotes
C25_Arity ==
  Translated =>
    LET cmd == first_word(reply.value.command) IN
    /\ (cmd \in one_argument_commands /\ TranslatedArgs = <<>>) =>
         IsUsageMessage(reply.value.translated, cmd)
    /\ (cmd \in two_argument_commands /\ Len(TranslatedArgs) < 2) =>
         IsUsageMessage(reply.value.translated, cmd)
    /\ (cmd = <<"c","p">> /\ Len(TranslatedArgs) >= 2) =>
         reply.value.translated =
           <<"C","o","p","y","-","I","t","e","m"," ">> \o Quoted(TranslatedArgs[1]) \o <<" ">> \o Quoted(TranslatedArgs[2])
    /\ (cmd = <<"m","v">> /\ Len(TranslatedArgs) >= 2) =>
         reply.value.translated =
           <<"M","o","v","e","-","I","t","e","m"," ">> \o Quoted(TranslatedArgs[1]) \o <<" ">> \o Quoted(TranslatedArgs[2])

\* a copy with three arguments became the copy of the first two
C25_Witness ==
  /\ Translated
  /\ reply.value.command = <<"c","p"," ","-","n"," ","a",".","t","x","t"," ","b",".","t","x","t">>
  /\ reply.value.translated = <<"C","o","p","y","-","I","t","e","m"," ","\"","-","n","\""," ","\"","a",".","t","x","t","\"">>

(***************************************************************************)
(* Properties of simulate_command and preview_command                      *)
(***************************************************************************)

\* C29: the simulation of a command has would_execute, risk_level and warnings
\* equal to allowed, risk_level and warnings of the verdict of evaluate_command on
\* that command, blocked_reason is the reason of the verdict when the verdict
\* blocks and None when it allows; and a simulation changes neither the log nor
\* the position of execute(), starts no child and makes no attempt
C29_SimulationAgrees ==
  /\ [](reply.kind = "simulate" =>
         LET verdict == evaluate_command(safety_gate, reply.value.command) IN
         /\ reply.value.would_execute = verdict.allowed
         /\ reply.value.risk_level = verdict.risk_level
         /\ reply.value.warnings = verdict.warnings
         /\ ~verdict.allowed => reply.value.blocked_reason = Some(verdict.reason)
         /\ verdict.allowed => reply.value.blocked_reason = None)
  /\ [][(reply' # reply /\ reply'.kind = "simulate") =>
          /\ execution_history' = execution_history
          /\ child' = child
          /\ attempts' = attempts
          /\ pc' = pc
          /\ calls' = calls]_vars

\* with one result in the log, a disabled gate has simulated the deletion of the
\* root directory: it would execute and no blocked_reason is reported
C29_Witness ==
  /\ reply.kind = "simulate"
  /\ reply.value.command = <<"r","m"," ","-","r","f"," ","/">>
  /\ ~safety_gate.enabled
  /\ reply.value.would_execute
  /\ reply.value.blocked_reason = None
  /\ Len(execution_history) = 1

\* C30 (as claimed): preview_command and simulate_command describe every command
\* with the same string, and a preview changes neither the log nor the position
\* of execute() and starts no child
C30_SameDescriptions ==
  /\ [](reply.kind \in {"preview", "simulate"} =>
         preview_command(reply.value.command).description
           = simulate_command(safety_gate, reply.value.command).description)
  /\ [][(reply' # reply /\ reply'.kind = "preview") =>
          /\ execution_history' = execution_history
          /\ child' = child
          /\ pc' = pc]_vars

(***************************************************************************)
(* Properties of concurrent execute() calls                                *)
(***************************************************************************)

\* the threads whose call has appended its result, and the places of the log
\* that hold the result r
RecordedThreads == { t \in Threads : threads[t].recorded }
EntriesOf(r) == { i \in DOMAIN execution_history : execution_history[i] = r }

\* C21: whatever the interleaving of the execute() calls of several threads, the
\* log holds as many entries as calls have recorded, and each recorded result is in
\* the log as many times as calls have recorded that result: no append is lost
\* and none is there twice
C21_NoLostAppend ==
  /\ Len(execution_history) = Cardinality(RecordedThreads)
  /\ \A t \in RecordedThreads :
       Cardinality(EntriesOf(threads[t].result))
         = Cardinality({ u \in RecordedThreads : threads[u].result = threads[t].result })

\* two calls that were in progress at the same time, both entered on the empty
\* log, have returned and the log holds both results
C21_Witness ==
  /\ \A t \in {1, 2} :
       /\ threads[t].pc = "returned"
       /\ threads[t].recorded
       /\ threads[t].history_len = 0
  /\ threads[1].result # threads[2].result
  /\ Len(execution_history) >= 2

(***************************************************************************)
(* Properties of OsirisTeamShell.run                                       *)
(***************************************************************************)

\* the line the loop is working on, from the moment it is parsed to the next prompt
LineInProgress == shell_pc \notin {"off", "prompt", "stopped"}

\* the last command of the shell's history
LastSaved == history.commands[Len(history.commands)]

\* C31: while the loop works on a line, a built-in included, the stripped line is
\* the last entry of the history, so it is there when evaluate_command is called
\* on it; the step that reads a non-blank line appends it, and no later step,
\* the one that blocks the line included, takes anything out of the history
C31_SavedBeforeGate ==
  /\ [](LineInProgress => (history.commands # <<>> /\ LastSaved = parsed.raw))
  /\ [][/\ (shell_pc = "prompt" /\ shell_pc' \in {"builtin", "gate"}) =>
            history'.commands = Append(history.commands, parsed'.raw)
        /\ shell_pc # "prompt" => history' = history
        /\ evaluated' # evaluated => history' = history]_vars

\* the line 'rm -rf /' has been blocked and is the last entry of the history
C31_Witness ==
  /\ shell_pc = "prompt"
  /\ evaluated = Some(<<"r","m"," ","-","r","f"," ","/">>)
  /\ ~safety_result.allowed
  /\ history.commands # <<>>
  /\ LastSaved = <<"r","m"," ","-","r","f"," ","/">>

\* the command the shell has handed to execute() came from Command R
Suggested == parsed.command = <<"r">>

\* C32 (as claimed): every command the shell executes, typed or suggested, is the
\* command the gate has just allowed, and it is executed with the same execute()
\* arguments: no working directory, no timeout and no backend preference
C32_SuggestionLikeTyped ==
  shell_pc = "executing" =>
    /\ evaluated = Some(call.command)
    /\ safety_result = evaluate_command(safety_gate, call.command)
    /\ safety_result.allowed
    /\ call.working_dir = None
    /\ call.timeout = None
    /\ call.use_wsl = None

\* C32: every command the shell executes, typed or suggested, is the command the
\* gate has just allowed, executed without working directory and timeout; a typed
\* command is executed without backend preference and a suggested one with
\* use_wsl=False, on the native backend whatever the engine's default is
C32_SuggestionForcedNative ==
  shell_pc = "executing" =>
    /\ evaluated = Some(call.command)
    /\ safety_result = evaluate_command(safety_gate, call.command)
    /\ safety_result.allowed
    /\ call.working_dir = None
    /\ call.timeout = None
    /\ call.use_wsl = IF Suggested THEN Some(FALSE) ELSE None
    /\ Suggested => (call.command = suggestion[1] /\ (pc # "idle" => ~frame.use_wsl))
    /\ ~Suggested => call.command = parsed.raw

\* on an engine whose default is WSL, a suggested command is being run natively
C32_Witness ==
  /\ shell_pc = "executing"
  /\ Suggested
  /\ use_wsl
  /\ wsl_available
  /\ pc = "communicate"
  /\ ~frame.use_wsl
  /\ call.use_wsl = Some(FALSE)

(***************************************************************************)
(* Further properties of CommandExecutor.execute                           *)
(***************************************************************************)

\* C33 (as claimed): the bound an execute() call waits for is the timeout given to
\* the call whenever one is given, 0 included, and the configured default only
\* when none is given
C33_PerCallTimeoutWins ==
  frame.depth > 0 =>
    frame.timeout = IF call.timeout = None THEN timeout ELSE call.timeout[1]

\* the text execute() has captured from the child contains a backend-missing
\* signature, in any casing
HasMissingSignature(text) == \E token \in fallback_tokens : Contains(Lower(text), token)

\* C34: when execute() has the exit code of a child, its next step starts a second
\* activation exactly when the attempt was on WSL, the exit code is not 0 and the
\* captured error text contains a backend-missing signature, and otherwise records
\* the result; so a call with a second activation had such a first attempt, and an
\* attempt on PowerShell or one that exited 0 is never followed by another
C34_RetryIff ==
  /\ [][pc = "check" =>
          ((pc' = "popen" /\ frame'.depth = frame.depth + 1)
             <=> (/\ LastAttempt.wsl
                  /\ LastAttempt.returncode # 0
                  /\ HasMissingSignature(frame.stderr)))]_vars
  /\ [][pc # "check" => (frame'.depth > 0 => frame'.depth <= frame.depth \/ frame'.depth = 1)]_vars
  /\ [](\A i \in DOMAIN attempts :
          i < Len(attempts) =>
            /\ attempts[i].wsl
            /\ attempts[i].exited
            /\ attempts[i].returncode # 0
            /\ HasMissingSignature(attempts[i].stderr))

\* a WSL child that wrote a backend-missing signature and exited 0 was not
\* retried: the call has returned after that one attempt
C34_Witness ==
  /\ Returned
  /\ Len(attempts) = 1
  /\ attempts[1].wsl
  /\ attempts[1].exited
  /\ attempts[1].returncode = 0
  /\ HasMissingSignature(attempts[1].stderr)
  /\ outcome.result.success

\* C35: every execute() call in progress leads to the state where it has returned
\* a result; in particular a call whose wait ran out and is about to kill its
\* child does, given that the killed child exits; and no call makes more than two
\* Popen calls
C35_EventuallyReturns ==
  /\ (pc # "idle") ~> Returned
  /\ (pc = "kill") ~> Returned
  /\ [](Len(attempts) <= 2)

\* a call whose WSL child was killed at the timeout and then retried on PowerShell
\* has returned
C35_Witness ==
  /\ Returned
  /\ Len(attempts) = 2
  /\ attempts[1].expired
  /\ attempts[1].exited
  /\ attempts[2].started

(***************************************************************************)
(* Properties of CommandExecutor._detect_wsl                               *)
(***************************************************************************)

\* C36: the probe answers unavailable when wsl is not found, when the probe raises
\* or runs out of its 5 seconds, and when it exits non-zero with stderr holding
\* 'bash: not found', 'no installed distributions' or 'wsl is not enabled' in any
\* casing; on a host where wsl is found and the probe completes, exit code 0 and
\* a non-zero exit with any other stderr both answer available
C36_ProbeVerdict ==
  reply.kind = "probe" =>
    LET host == reply.value.host
        absent == \E pattern \in probe_patterns : Contains(Lower(host.stderr), pattern)
    IN  /\ ~host.which => ~reply.value.available
        /\ host.exception \in {"OSError", "TimeoutExpired"} => ~reply.value.available
        /\ (host.returncode # 0 /\ absent) => ~reply.value.available
        /\ (host.which /\ host.exception = "none" /\ host.returncode = 0) =>
             reply.value.available
        /\ (host.which /\ host.exception = "none" /\ host.returncode # 0 /\ ~absent) =>
             reply.value.available

\* a probe that exited 255 with an unknown error text left WSL marked available
C36_Witness ==
  /\ reply.kind = "probe"
  /\ reply.value.host.which
  /\ reply.value.host.exception = "none"
  /\ reply.value.host.returncode = 255
  /\ reply.value.host.stderr = <<"T","h","e"," ","s","y","s","t","e","m"," ","c","a","n","n","o","t"," ","f","i","n","d"," ","t","h","e"," ","f","i","l","e"," ","s","p","e","c","i","f","i","e","d">>
  /\ reply.value.available

(***************************************************************************)
(* Properties of the engine's backend flags                                *)
(***************************************************************************)

\* C37: once the engine is constructed no step of execute(), the retry included,
\* changes _wsl_available or use_wsl, and every call without a backend preference
\* starts on the backend use_wsl names, also after an earlier call was retried on
\* PowerShell
C37_FlagsAreFrozen ==
  /\ [][constructed => (wsl_available' = wsl_available /\ use_wsl' = use_wsl)]_vars
  /\ [](frame.depth = 1 /\ call.use_wsl = None => frame.use_wsl = use_wsl)
  /\ [](attempts # <<>> /\ call.use_wsl = None => attempts[1].wsl = use_wsl)

\* the first call of a WSL-default engine returned from its retry (its result
\* started after the clock had advanced), and the second call, without a backend
\* preference, is waiting for a WSL child
C37_Witness ==
  /\ use_wsl
  /\ wsl_available
  /\ calls = 2
  /\ Len(execution_history) = 1
  /\ execution_history[1].start_time > 0
  /\ call.use_wsl = None
  /\ frame.depth = 1
  /\ pc = "communicate"
  /\ attempts[1].wsl

\* the call in progress asked for WSL, by its argument or by the engine's default,
\* and execute() sent it to PowerShell because WSL is marked unavailable
Demoted ==
  /\ frame.depth = 1
  /\ ~frame.use_wsl
  /\ IF call.use_wsl = None THEN use_wsl ELSE call.use_wsl[1]

\* C38: on a constructed engine use_wsl implies _wsl_available, so the branch of
\* execute() that sends a WSL request to PowerShell is taken only by calls made
\* with use_wsl=True, never by a call without a backend preference
C38_DefaultImpliesAvailable ==
  /\ constructed => (use_wsl => wsl_available)
  /\ Demoted => (call.use_wsl = Some(TRUE) /\ ~wsl_available)
  /\ (frame.depth = 1 /\ call.use_wsl = None /\ use_wsl) => frame.use_wsl

\* a call made with use_wsl=True on an engine without WSL runs on PowerShell
C38_Witness ==
  /\ constructed
  /\ ~wsl_available
  /\ ~use_wsl
  /\ Demoted
  /\ call.use_wsl = Some(TRUE)
  /\ attempts # <<>>
  /\ ~attempts[1].wsl


\* ---------------------------------------------------------------------------
\* Properties of the pipeline of OsirisTeamShell.run
\* ---------------------------------------------------------------------------

\* C39: a typed line that is not a built-in is executed exactly once when the
\* gate allows it and not at all when the gate blocks it: the gate's step goes
\* to the execution step exactly when the verdict allows, the execution step
\* is one call of execute() on that line and is the same step for every reading
\* of the monitor (missing metrics included), and no other step of the line
\* calls execute(); a line whose first word is exit, quit, help, team, status
\* or metrics (the built-ins other than r) is neither classified nor executed.
C39_OncePerAllowedLine ==
  /\ [](shell_pc = "run" =>
          /\ safety_result.allowed
          /\ evaluated = Some(parsed.raw)
          /\ parsed.command \notin builtins)
  /\ [][ /\ shell_pc = "gate" =>
             /\ calls' = calls
             /\ shell_pc' = IF safety_result'.allowed THEN "run" ELSE "prompt"
         /\ shell_pc = "run" =>
             /\ calls' = calls + 1
             /\ call'.command = parsed.raw
             /\ shell_pc' = "executing"
             /\ \A metrics \in MonitorReadings, again \in MonitorReadings :
                  RunCommand(metrics, again)
         /\ shell_pc = "executing" => calls' = calls /\ shell_pc' \in {"executing", "prompt"}
         /\ calls' # calls => shell_pc \in {"run", "rag_run"}
         /\ (shell_pc = "builtin" /\ parsed.command \in builtins \ { <<"r">> }) =>
             /\ evaluated' = evaluated
             /\ safety_result' = safety_result
             /\ calls' = calls
             /\ shell_pc' \in {"prompt", "stopped"}
       ]_vars

\* an allowed line was executed once and the blocked line after it not at all
C39_Witness ==
  /\ lines = 2
  /\ shell_pc = "prompt"
  /\ calls = 1
  /\ call.command = <<"l","s"," ","-","l","a">>
  /\ evaluated = Some(<<"r","m"," ","-","r","f"," ","/">>)
  /\ ~safety_result.allowed

\* ---------------------------------------------------------------------------
\* Properties of CommandExecutor.get_recent_executions
\* ---------------------------------------------------------------------------

\* C40: get_recent_executions(count) answers, for every count >= 0, with the
\* last min(count, length of the log) results of the log in log order, so with
\* no more than count entries, and leaves the log as it was
C40_RecentAtMostCount ==
  [][\A count \in RecentCounts :
       GetRecent(count) =>
         LET n == Len(execution_history)
             k == IF count <= n THEN count ELSE n
         IN /\ reply'.value = SubSeq(execution_history, n - k + 1, n)
            /\ Len(reply'.value) <= count
            /\ execution_history' = execution_history]_vars
====
